---- MODULE Spec2Model ----
(***************************************************************************)
(* Device stream lifecycle orchestrator (drone_telemetry_server.js).       *)
(*                                                                         *)
(* The process is one Node.js event loop.  Every action below is one run   *)
(* of a callback from the point where the loop enters it to the point      *)
(* where it returns or reaches an `await` on an external call.  External   *)
(* calls (login, start-stream POST, registry GET and PATCH) are answered   *)
(* by separate actions whose outcome is chosen by the environment.         *)
(***************************************************************************)
EXTENDS Integers, Sequences, FiniteSets, Bags, TLC

(* ------------------------------------------------------------------ *)
(* Program constants                                                  *)
(* ------------------------------------------------------------------ *)
MAX_RETRY_ATTEMPTS == 10
INACTIVITY_TIMEOUT_MS == 25000
CHECK_INTERVAL_MS == 10000
maxFetchAttempts == 3

(* ------------------------------------------------------------------ *)
(* Bounds of the model                                                *)
(* ------------------------------------------------------------------ *)
\* the clock stops after MaxTicks steps of TickMs
MaxTicks == 3
\* startStream activations that may be pending at the same time
MaxTasks == 2
\* the counter of start-stream POSTs per device saturates here
MaxCount == 2
\* loadDronesFromAPI chains that may be pending at the same time
MaxLoads == 2

\* granularity of the clock: telemetry and answers arrive on this grid
TickMs == CHECK_INTERVAL_MS

Devices == {"d1", "d2"}
Cameras == {"camA", "camB"}
NoCamera == "null"
NoToken == "null"
Token == "tok"
StreamUrl == "rtmp://stream"

(* ------------------------------------------------------------------ *)
(* Registry records and the cached DeviceConfig                        *)
(* ------------------------------------------------------------------ *)
\* what GET /drones may answer: a list of database records
Drone(sn, cams) == [deviceSerialNumber |-> sn, cameras |-> cams]

\* a null element of the list: reading its fields throws
NullDrone == [deviceSerialNumber |-> "null", cameras |-> <<>>]

\* the registry's states the answers are drawn from
Registry0 == <<Drone("d1", <<"camA", "camB">>), Drone("d2", <<>>)>>
Registry1 == <<Drone("d2", <<"camB">>)>>
Snapshots == {Registry0, Registry1}
Malformed == <<Drone("d2", <<"camB">>), NullDrone>>

\* an answer to a GET: a list of records, or a request error or timeout
Ok(drones) == [status |-> "ok", drones |-> drones]
ErrorAnswer == [status |-> "error", drones |-> <<>>]

\* what the registry may answer to GET /drones
ListAnswers(up) == IF up THEN {Ok(r) : r \in Snapshots} ELSE {ErrorAnswer, Ok(Malformed)}

\* what the registry may answer to GET /drones/sn/<sn>: the record or 404
RecordsOf(sn) ==
    UNION {{r[i] : i \in {j \in DOMAIN r : r[j].deviceSerialNumber = sn}} : r \in Snapshots}

OneAnswers(up, sn) ==
    {ErrorAnswer} \cup (IF up THEN {Ok(<<d>>) : d \in RecordsOf(sn)} ELSE {})

\* loadDronesFromAPI's drones.map(...) of one record
TransformDrone(drone) == [sn |-> drone.deviceSerialNumber, cameras |-> drone.cameras]

\* drones.map(...): evaluated left to right, it throws at a null element
Threw(drones) == \E i \in 1..Len(drones) : drones[i] = NullDrone

TransformAll(drones) == [i \in 1..Len(drones) |-> TransformDrone(drones[i])]

\* the elements transformed before the first null one
TransformedPrefix(drones) ==
    LET n == IF Threw(drones)
             THEN (CHOOSE i \in 1..Len(drones) :
                      /\ drones[i] = NullDrone
                      /\ \A j \in 1..(i - 1) : drones[j] # NullDrone) - 1
             ELSE Len(drones)
    IN  TransformAll(SubSeq(drones, 1, n))

Loaded(answer) == answer.status = "ok" /\ ~Threw(answer.drones)

\* variant: dronesConfig filled element by element while the list is read
LoadedConfigPartial(config, answer) ==
    IF answer.status = "ok"
    THEN TransformedPrefix(answer.drones) \o
         SubSeq(config, Len(TransformedPrefix(answer.drones)) + 1, Len(config))
    ELSE config

\* dronesConfig after the answer to GET /drones (lines 47-62)
LoadedConfig(config, answer) ==
    IF Loaded(answer) THEN TransformAll(answer.drones) ELSE config

\* dronesConfig.map(drone => drone.sn)
Serials(config) == [i \in 1..Len(config) |-> config[i].sn]

Range(f) == {f[i] : i \in DOMAIN f}

\* dronesConfig.find(d => d.sn === droneSN): the index of the first match, 0 if none
FindDrone(config, droneSN) ==
    IF \E i \in 1..Len(config) : config[i].sn = droneSN
    THEN CHOOSE i \in 1..Len(config) :
            /\ config[i].sn = droneSN
            /\ \A j \in 1..(i - 1) : config[j].sn # droneSN
    ELSE 0

\* variant: the last configured camera is used
LastOf(cams) == IF Len(cams) = 0 THEN NoCamera ELSE cams[Len(cams)]

\* drone.cameras[0], NoCamera when the list is empty
FirstOf(cams) == IF Len(cams) = 0 THEN NoCamera ELSE cams[1]

getDroneFirstCamera(config, droneSN) ==
    LET i == FindDrone(config, droneSN)
    IN  IF i = 0 THEN NoCamera ELSE FirstOf(config[i].cameras)

(* ------------------------------------------------------------------ *)
(* droneLastMessageTime: a JS Map, kept in insertion order             *)
(* ------------------------------------------------------------------ *)
MapIndex(m, k) ==
    IF \E i \in 1..Len(m) : m[i].k = k
    THEN CHOOSE i \in 1..Len(m) : m[i].k = k
    ELSE 0

MapHas(m, k) == MapIndex(m, k) # 0

MapGet(m, k) == m[MapIndex(m, k)].v

MapSet(m, k, v) ==
    IF MapHas(m, k)
    THEN [m EXCEPT ![MapIndex(m, k)] = [k |-> k, v |-> v]]
    ELSE Append(m, [k |-> k, v |-> v])

MapDelete(m, k) ==
    LET i == MapIndex(m, k)
    IN  IF i = 0 THEN m
        ELSE [j \in 1..(Len(m) - 1) |-> IF j < i THEN m[j] ELSE m[j + 1]]

(* ------------------------------------------------------------------ *)
(* Telemetry payloads                                                  *)
(* ------------------------------------------------------------------ *)
\* a message that JSON.parse rejects
Unparsable == [parsed |-> FALSE, hasData |-> FALSE, data |-> {}]
\* a decoded message without an object under "data"
NoData == [parsed |-> TRUE, hasData |-> FALSE, data |-> {}]
\* a decoded message; data is the set of keys of "data" with a truthy value
Osd(present) == [parsed |-> TRUE, hasData |-> TRUE, data |-> present]

Payloads == {Unparsable, NoData} \cup {Osd(p) : p \in SUBSET Cameras}

VARIABLES
    dronesConfig,           \* cached DeviceConfig list
    droneSNs,               \* serials of the cached list
    databaseConnected,
    retryCount,
    cachedToken,
    startedStreams,         \* devices in state STREAMING
    droneLastMessageTime,   \* lastSeen per device
    subscribed,             \* serials whose topic the MQTT client subscribed
    tasks,                  \* bag of pending startStream activations
    sweeps,                 \* watchdog sweeps waiting for their stop report
    loads,                  \* bag of pending loadDronesFromAPI chains
    now,                    \* Date.now()
    watchdogDue,            \* when the watchdog's setInterval fires next
    registryUp,             \* environment: GET /drones answers a well-formed list
    posts,                  \* start-stream POSTs issued per device (saturating)
    reports,                \* the last two status reports issued per device
    ev                      \* what the last step did

\* the stream monitor (stream_monitor_server.js), a process of its own
VARIABLES
    devices,                \* the monitored devices as last loaded
    deviceStatusCache,      \* previous probe result per device
    isMonitoring,
    monitorDatabaseConnected,
    monitorLoads,           \* pending loadDevicesFromAPI chains
    checking,               \* pending checkDeviceStream activations
    registryStreamIsOn,     \* environment: streamIsOn as the registry stores it
    checks                  \* the last two checks per device: result, PATCH sent

\* the drone API with its event bridge (droneController.ts, redisManager.ts,
\* websocketServer.ts), a process of its own
VARIABLES
    droneDb,                \* the drone collection: serial -> record or none
    redisConnected,         \* redisManager.isConnected
    requests,               \* pending API requests
    bus,                    \* messages Redis has accepted and not yet delivered
    connectedClients,       \* WebSocket clients and their subscriptions
    delivered,              \* drone:event messages emitted per client
    changes                 \* log of the API operations

\* the notification server (filtered_notification_server.js), a process of its own
VARIABLES
    recentDetections,       \* the stored detections by image hash, in insertion order
    notifyRequests,         \* /notify requests that await their image hash
    notifyNow               \* Date.now() of this process

\* the Redis manager of the drone API (redisManager.ts)
VARIABLES
    reconnectAttempts,      \* redisManager.reconnectAttempts
    reconnectTimers,        \* reconnect timers set and not yet fired
    initializing,           \* initialize() calls that await their connects
    livePublishers,         \* publisher connections that are open
    liveSubscribers         \* subscriber connections that are open

telemetryVars == <<dronesConfig, droneSNs, databaseConnected, retryCount, cachedToken,
                   startedStreams, droneLastMessageTime, subscribed, tasks, sweeps,
                   loads, now, watchdogDue, posts, reports>>

monitorVars == <<devices, deviceStatusCache, isMonitoring, monitorDatabaseConnected,
                 monitorLoads, checking, registryStreamIsOn, checks>>

backendVars == <<droneDb, redisConnected, requests, bus, connectedClients, delivered, changes>>

notifyVars == <<recentDetections, notifyRequests, notifyNow>>

redisVars == <<reconnectAttempts, reconnectTimers, initializing, livePublishers, liveSubscribers>>

vars == <<telemetryVars, registryUp, ev, monitorVars, backendVars, notifyVars, redisVars>>

registryVars == <<dronesConfig, droneSNs, databaseConnected, retryCount, subscribed, loads, registryUp>>

(* ------------------------------------------------------------------ *)
(* External calls as they are observed                                 *)
(* ------------------------------------------------------------------ *)
Login == [api |-> "login", sn |-> "", on |-> FALSE, url |-> ""]
StartPost(sn, cam) == [api |-> "start", sn |-> sn, on |-> TRUE, url |-> cam]
Patch(sn, on, url) == [api |-> "patch", sn |-> sn, on |-> on, url |-> url]
GetOne(sn) == [api |-> "getOne", sn |-> sn, on |-> FALSE, url |-> ""]
GetAll == [api |-> "getAll", sn |-> "", on |-> FALSE, url |-> ""]

\* op: the callback that ran; sn: its device (for a load, its caller); arg: its input or outcome;
\* was: whether the device was STREAMING before the step; calls: requests it sent
Event(op, sn, arg, was, calls) ==
    [op |-> op, sn |-> sn, arg |-> arg, was |-> was, calls |-> calls]

\* the last two reports of a device, newest last
Reported(log, call) ==
    LET r == [on |-> call.on, url |-> call.url]
    IN  IF Len(log) < 2 THEN Append(log, r) ELSE <<log[2], r>>

\* bookkeeping of the calls a step issued
Observe(calls) ==
    /\ posts' = [sn \in Devices |->
                    IF \E c \in calls : c.api = "start" /\ c.sn = sn
                    THEN IF posts[sn] < MaxCount THEN posts[sn] + 1 ELSE posts[sn]
                    ELSE posts[sn]]
    /\ reports' = [sn \in Devices |->
                    IF \E c \in calls : c.api = "patch" /\ c.sn = sn
                    THEN Reported(reports[sn], CHOOSE c \in calls : c.api = "patch" /\ c.sn = sn)
                    ELSE reports[sn]]

(* ------------------------------------------------------------------ *)
(* startStream                                                         *)
(* ------------------------------------------------------------------ *)
\* variant: the same delay before every retry of the fallback fetch
FetchRetryDelayFixed(fetchAttempts) == 1000

\* const retryDelay = 1000 * fetchAttempts (line 257)
FetchRetryDelay(fetchAttempts) == 1000 * fetchAttempts

\* a pending startStream activation: where it waits, its camera, its
\* fetchAttempts and, while it sleeps, how long the sleep is
Task(sn, pc, cam, n) ==
    [sn |-> sn, pc |-> pc, cam |-> cam, fetchAttempts |-> n,
     delay |-> IF pc = "fetchSleep" THEN FetchRetryDelay(n) ELSE 0]

\* a promise that is already resolved is awaited: its continuation runs
\* before the loop takes the next timer or network callback
MicrotaskPending == \E t \in BagToSet(tasks) : t.pc = "token"

\* startStream from the camera check to the start-stream POST (lines 274-300)
\* result: the task that waits for the POST, or none when startStream returned
StartWithDrone(sn, cams) ==
    IF FirstOf(cams) = NoCamera
    THEN [task |-> <<>>, calls |-> {}]
    ELSE [task |-> <<Task(sn, "post", FirstOf(cams), 0)>>,
          calls |-> {StartPost(sn, FirstOf(cams))}]

\* startStream after the token is there (lines 212-300)
AfterToken(sn, config) ==
    LET i == FindDrone(config, sn)
    IN  IF i = 0
        THEN [task |-> <<Task(sn, "fetch", NoCamera, 0)>>, calls |-> {GetOne(sn)}]
        ELSE StartWithDrone(sn, config[i].cameras)

\* variant: getAcessToken without its test of cachedToken
StartStreamEnterAlwaysLogin(sn) ==
    IF sn \in startedStreams
    THEN [task |-> <<>>, calls |-> {}]
    ELSE [task |-> <<Task(sn, "login", NoCamera, 0)>>, calls |-> {Login}]

\* variant: a guard set by the first start request of a device is never cleared
StartStreamEnterOnce(sn) ==
    IF sn \in startedStreams \/ posts[sn] > 0
    THEN [task |-> <<>>, calls |-> {}]
    ELSE IF cachedToken # NoToken
         THEN [task |-> <<Task(sn, "token", NoCamera, 0)>>, calls |-> {}]
         ELSE [task |-> <<Task(sn, "login", NoCamera, 0)>>, calls |-> {Login}]

\* startStream up to its first await (lines 203-211, getAcessToken 168-182)
StartStreamEnter(sn) ==
    IF sn \in startedStreams
    THEN [task |-> <<>>, calls |-> {}]
    ELSE IF cachedToken # NoToken
         THEN [task |-> <<Task(sn, "token", NoCamera, 0)>>, calls |-> {}]
         ELSE [task |-> <<Task(sn, "login", NoCamera, 0)>>, calls |-> {Login}]

AddTask(bag, r) == IF r.task = <<>> THEN bag ELSE bag (+) SetToBag({r.task[1]})

RemoveTask(bag, t) == bag (-) SetToBag({t})

(* ------------------------------------------------------------------ *)
(* mqttClient.on('message')                                            *)
(* ------------------------------------------------------------------ *)
\* how the handler reads a payload for a device whose first camera is cam
Kind(payload, cam) ==
    IF ~payload.parsed THEN "unparsable"
    ELSE IF ~payload.hasData THEN "nodata"
    ELSE IF cam # NoCamera /\ cam \in payload.data THEN "present"
    ELSE "absent"

\* variant: the stop branch without its startedStreams.has(sn) test
StopUnguarded(sn, started) ==
    [started |-> started \ {sn}, calls |-> {Patch(sn, FALSE, "")}]

\* variant: the stop branch reports but forgets startedStreams.delete(sn)
StopKeepsStreaming(sn, started) ==
    IF sn \in started
    THEN [started |-> started, calls |-> {Patch(sn, FALSE, "")}]
    ELSE [started |-> started, calls |-> {}]

\* variant: the stop branch makes the device IDLE without a report
StopSilently(sn, started) == [started |-> started \ {sn}, calls |-> {}]

\* the else branch of the handler (lines 414-423): stop when STREAMING
StopOnAbsence(sn, started) ==
    IF sn \in started
    THEN [started |-> started \ {sn}, calls |-> {Patch(sn, FALSE, "")}]
    ELSE [started |-> started, calls |-> {}]

\* variant: lastSeen is set before the payload is decoded
LastSeenBeforeParse(m, sn, kind, time) == MapSet(m, sn, time)

\* droneLastMessageTime.set(sn, Date.now()) (line 399) follows JSON.parse
\* (line 395) inside the try block
LastSeenAfter(m, sn, kind, time) ==
    IF kind = "unparsable" THEN m ELSE MapSet(m, sn, time)

OnMessage(sn, payload) ==
    LET kind == Kind(payload, getDroneFirstCamera(dronesConfig, sn))
        start == IF kind = "present" /\ sn \notin startedStreams
                 THEN StartStreamEnter(sn)
                 ELSE [task |-> <<>>, calls |-> {}]
        stop == IF kind = "absent"
                THEN StopOnAbsence(sn, startedStreams)
                ELSE [started |-> startedStreams, calls |-> {}]
    IN  /\ sn \in subscribed
        /\ start.task # <<>> => BagCardinality(tasks) < MaxTasks
        /\ droneLastMessageTime' = LastSeenAfter(droneLastMessageTime, sn, kind, now)
        /\ startedStreams' = stop.started
        /\ tasks' = AddTask(tasks, start)
        /\ Observe(start.calls \cup stop.calls)
        /\ ev' = Event("message", sn, kind, sn \in startedStreams,
                       start.calls \cup stop.calls)
        /\ UNCHANGED <<monitorVars, backendVars, notifyVars, redisVars>>
        /\ UNCHANGED <<registryVars, cachedToken, sweeps, now, watchdogDue>>

(* ------------------------------------------------------------------ *)
(* startStream: the continuations of its awaits                        *)
(* ------------------------------------------------------------------ *)
\* await getAcessToken() resumes with the cached token
TokenResume(t) ==
    LET r == AfterToken(t.sn, dronesConfig)
    IN  /\ BagIn(t, tasks) /\ t.pc = "token"
        /\ tasks' = AddTask(RemoveTask(tasks, t), r)
        /\ Observe(r.calls)
        /\ ev' = Event("token", t.sn, "cached", t.sn \in startedStreams, r.calls)
        /\ UNCHANGED <<monitorVars, backendVars, notifyVars, redisVars>>
        /\ UNCHANGED <<registryVars, cachedToken, startedStreams,
                       droneLastMessageTime, sweeps, now, watchdogDue>>

\* variant: getAcessToken sends the login again when it has failed
LoginRespondRetries(t, ok) ==
    LET r == IF ok THEN AfterToken(t.sn, dronesConfig)
                   ELSE [task |-> <<t>>, calls |-> {Login}]
    IN  /\ BagIn(t, tasks) /\ t.pc = "login"
        /\ ~MicrotaskPending
        /\ cachedToken' = IF ok THEN Token ELSE cachedToken
        /\ tasks' = AddTask(RemoveTask(tasks, t), r)
        /\ Observe(r.calls)
        /\ ev' = Event("login", t.sn, IF ok THEN "ok" ELSE "fail",
                       t.sn \in startedStreams, r.calls)
        /\ UNCHANGED <<monitorVars, backendVars, notifyVars, redisVars>>
        /\ UNCHANGED <<registryVars, startedStreams, droneLastMessageTime,
                       sweeps, now, watchdogDue>>

\* the login POST is answered (getAcessToken lines 174-197, startStream 211-215)
LoginRespond(t, ok) ==
    LET r == IF ok THEN AfterToken(t.sn, dronesConfig)
                   ELSE [task |-> <<>>, calls |-> {}]
    IN  /\ BagIn(t, tasks) /\ t.pc = "login"
        /\ ~MicrotaskPending
        /\ cachedToken' = IF ok THEN Token ELSE cachedToken
        /\ tasks' = AddTask(RemoveTask(tasks, t), r)
        /\ Observe(r.calls)
        /\ ev' = Event("login", t.sn, IF ok THEN "ok" ELSE "fail",
                       t.sn \in startedStreams, r.calls)
        /\ UNCHANGED <<monitorVars, backendVars, notifyVars, redisVars>>
        /\ UNCHANGED <<registryVars, startedStreams, droneLastMessageTime,
                       sweeps, now, watchdogDue>>

\* variant: startedStreams.add(droneSN) follows every answer to the POST
PostRespondMarks(t, ok) ==
    LET calls == IF ok THEN {Patch(t.sn, TRUE, StreamUrl)} ELSE {}
    IN  /\ BagIn(t, tasks) /\ t.pc = "post"
        /\ ~MicrotaskPending
        /\ startedStreams' = startedStreams \cup {t.sn}
        /\ tasks' = IF ok
                    THEN RemoveTask(tasks, t) (+) SetToBag({[t EXCEPT !.pc = "patch"]})
                    ELSE RemoveTask(tasks, t)
        /\ Observe(calls)
        /\ ev' = Event("post", t.sn, IF ok THEN "ok" ELSE "fail",
                       t.sn \in startedStreams, calls)
        /\ UNCHANGED <<monitorVars, backendVars, notifyVars, redisVars>>
        /\ UNCHANGED <<registryVars, cachedToken,
                       droneLastMessageTime, sweeps, now, watchdogDue>>

\* the start-stream POST is answered (lines 295-320)
PostRespond(t, ok) ==
    LET calls == IF ok THEN {Patch(t.sn, TRUE, StreamUrl)} ELSE {}
    IN  /\ BagIn(t, tasks) /\ t.pc = "post"
        /\ ~MicrotaskPending
        /\ tasks' = IF ok
                    THEN RemoveTask(tasks, t) (+) SetToBag({[t EXCEPT !.pc = "patch"]})
                    ELSE RemoveTask(tasks, t)
        /\ Observe(calls)
        /\ ev' = Event("post", t.sn, IF ok THEN "ok" ELSE "fail",
                       t.sn \in startedStreams, calls)
        /\ UNCHANGED <<monitorVars, backendVars, notifyVars, redisVars>>
        /\ UNCHANGED <<registryVars, cachedToken, startedStreams,
                       droneLastMessageTime, sweeps, now, watchdogDue>>

\* variant: startStream without its startedStreams.add(droneSN)
PatchRespondForgets(t, ok) ==
    /\ BagIn(t, tasks) /\ t.pc = "patch"
    /\ ~MicrotaskPending
    /\ tasks' = RemoveTask(tasks, t)
    /\ Observe({})
    /\ ev' = Event("patched", t.sn, IF ok THEN "ok" ELSE "fail",
                   t.sn \in startedStreams, {})
    /\ UNCHANGED <<monitorVars, backendVars, notifyVars, redisVars>>
    /\ UNCHANGED <<registryVars, cachedToken, startedStreams,
                   droneLastMessageTime, sweeps, now, watchdogDue>>

\* updateDroneStreamStatus(droneSN, true, url) returns to startStream
\* (lines 93-114 and 309-313); its result is not read
PatchRespond(t, ok) ==
    /\ BagIn(t, tasks) /\ t.pc = "patch"
    /\ ~MicrotaskPending
    /\ startedStreams' = startedStreams \cup {t.sn}
    /\ tasks' = RemoveTask(tasks, t)
    /\ Observe({})
    /\ ev' = Event("patched", t.sn, IF ok THEN "ok" ELSE "fail",
                   t.sn \in startedStreams, {})
    /\ UNCHANGED <<monitorVars, backendVars, notifyVars, redisVars>>
    /\ UNCHANGED <<registryVars, cachedToken, droneLastMessageTime, sweeps,
                   now, watchdogDue>>

(* ------------------------------------------------------------------ *)
(* Inactivity watchdog (setInterval, lines 132-148)                    *)
(* ------------------------------------------------------------------ *)
Sweep(wnow, pos, sn) == [wnow |-> wnow, pos |-> pos, sn |-> sn]

\* a Map iterator keeps its place when an entry before it is deleted
AdjustPos(s, q) == IF q # 0 /\ q < s.pos THEN [s EXCEPT !.pos = s.pos - 1] ELSE s

\* the for-loop from entry pos on, up to its next await or its end
RECURSIVE SweepRun(_, _, _, _, _)
SweepRun(wnow, pos, started, m, others) ==
    IF pos > Len(m)
    THEN [started |-> started, m |-> m, sweeps |-> others, calls |-> {}]
    ELSE IF wnow - m[pos].v > INACTIVITY_TIMEOUT_MS
         THEN IF m[pos].k \in started
              THEN [started |-> started \ {m[pos].k}, m |-> m,
                    sweeps |-> others \cup {Sweep(wnow, pos + 1, m[pos].k)},
                    calls |-> {Patch(m[pos].k, FALSE, "")}]
              ELSE SweepRun(wnow, pos, started, MapDelete(m, m[pos].k),
                            {AdjustPos(o, pos) : o \in others})
         ELSE SweepRun(wnow, pos + 1, started, m, others)

WatchdogApply(r, op, sn, arg) ==
    /\ startedStreams' = r.started
    /\ droneLastMessageTime' = r.m
    /\ sweeps' = r.sweeps
    /\ Observe(r.calls)
    /\ ev' = Event(op, sn, arg, sn \in startedStreams, r.calls)

WatchdogFire ==
    /\ now = watchdogDue
    /\ ~MicrotaskPending
    /\ watchdogDue' = now + CHECK_INTERVAL_MS
    /\ WatchdogApply(SweepRun(now, 1, startedStreams, droneLastMessageTime, sweeps),
                     "watchdog", "", "")
    /\ UNCHANGED <<monitorVars, backendVars, notifyVars, redisVars>>
    /\ UNCHANGED <<registryVars, cachedToken, tasks, now>>

\* variant: a stop report that failed ends the sweep
WatchdogResumeAborts(s, ok) ==
    LET q == MapIndex(droneLastMessageTime, s.sn)
        me == AdjustPos(s, q)
    IN  /\ s \in sweeps
        /\ ~MicrotaskPending
        /\ IF ok
           THEN WatchdogApply(SweepRun(s.wnow, me.pos, startedStreams,
                                       MapDelete(droneLastMessageTime, s.sn),
                                       {AdjustPos(o, q) : o \in sweeps \ {s}}),
                              "swept", s.sn, "ok")
           ELSE WatchdogApply([started |-> startedStreams, m |-> droneLastMessageTime,
                               sweeps |-> sweeps \ {s}, calls |-> {}],
                              "swept", s.sn, "fail")
        /\ UNCHANGED <<monitorVars, backendVars, notifyVars, redisVars>>
        /\ UNCHANGED <<registryVars, cachedToken, tasks, now, watchdogDue>>

\* the stop report of a sweep is answered: delete the entry and go on
WatchdogResume(s, ok) ==
    LET q == MapIndex(droneLastMessageTime, s.sn)
        me == AdjustPos(s, q)
    IN  /\ s \in sweeps
        /\ ~MicrotaskPending
        /\ WatchdogApply(SweepRun(s.wnow, me.pos, startedStreams,
                                  MapDelete(droneLastMessageTime, s.sn),
                                  {AdjustPos(o, q) : o \in sweeps \ {s}}),
                         "swept", s.sn, IF ok THEN "ok" ELSE "fail")
        /\ UNCHANGED <<monitorVars, backendVars, notifyVars, redisVars>>
        /\ UNCHANGED <<registryVars, cachedToken, tasks, now, watchdogDue>>

(* ------------------------------------------------------------------ *)
(* Time                                                                *)
(* ------------------------------------------------------------------ *)
Tick ==
    /\ ~MicrotaskPending
    /\ now < MaxTicks * TickMs
    /\ now < watchdogDue
    /\ now' = now + TickMs
    /\ Observe({})
    /\ ev' = Event("tick", "", "", FALSE, {})
    /\ UNCHANGED <<monitorVars, backendVars, notifyVars, redisVars>>
    /\ UNCHANGED <<registryVars, cachedToken, startedStreams,
                   droneLastMessageTime, tasks, sweeps, watchdogDue>>

(* ------------------------------------------------------------------ *)
(* startStream: the fallback fetch of one device (lines 221-267)       *)
(* ------------------------------------------------------------------ *)
FetchRespond(t, answer) ==
    LET found == answer.status = "ok"
        drone == TransformDrone(answer.drones[1])
        r == IF found THEN StartWithDrone(t.sn, drone.cameras)
             ELSE IF t.fetchAttempts + 1 < maxFetchAttempts
                  THEN [task |-> <<Task(t.sn, "fetchSleep", NoCamera, t.fetchAttempts + 1)>>,
                        calls |-> {}]
                  ELSE [task |-> <<>>, calls |-> {}]
    IN  /\ BagIn(t, tasks) /\ t.pc = "fetch"
        /\ ~MicrotaskPending
        /\ answer \in OneAnswers(registryUp, t.sn)
        /\ dronesConfig' = IF found THEN Append(dronesConfig, drone) ELSE dronesConfig
        /\ droneSNs' = IF found /\ t.sn \notin Range(droneSNs)
                       THEN Append(droneSNs, t.sn) ELSE droneSNs
        /\ databaseConnected' =
              IF ~found /\ t.fetchAttempts + 1 >= maxFetchAttempts
              THEN FALSE ELSE databaseConnected
        /\ tasks' = AddTask(RemoveTask(tasks, t), r)
        /\ Observe(r.calls)
        /\ ev' = Event("fetch", t.sn,
                       IF found THEN "ok"
                       ELSE IF t.fetchAttempts + 1 < maxFetchAttempts THEN "retry" ELSE "fail",
                       t.sn \in startedStreams, r.calls)
        /\ UNCHANGED <<monitorVars, backendVars, notifyVars, redisVars>>
        /\ UNCHANGED <<retryCount, subscribed, loads, registryUp, cachedToken,
                       startedStreams, droneLastMessageTime, sweeps, now, watchdogDue>>

\* sleep(retryDelay) is over: the next GET of the fallback fetch
FetchWake(t) ==
    /\ BagIn(t, tasks) /\ t.pc = "fetchSleep"
    /\ ~MicrotaskPending
    /\ tasks' = RemoveTask(tasks, t) (+) SetToBag({Task(t.sn, "fetch", t.cam, t.fetchAttempts)})
    /\ Observe({})
    /\ ev' = Event("fetchWake", t.sn, "", t.sn \in startedStreams, {GetOne(t.sn)})
    /\ UNCHANGED <<monitorVars, backendVars, notifyVars, redisVars>>
    /\ UNCHANGED <<registryVars, cachedToken, startedStreams,
                   droneLastMessageTime, sweeps, now, watchdogDue>>

(* ------------------------------------------------------------------ *)
(* Registry client: loadDronesFromAPI and its two callers              *)
(* ------------------------------------------------------------------ *)
INITIAL_RETRY_DELAY_MS == 2000
MAX_RETRY_DELAY_MS == 30000

\* Math.pow(2, attempt)
RECURSIVE Pow2(_)
Pow2(n) == IF n = 0 THEN 1 ELSE 2 * Pow2(n - 1)

Min(a, b) == IF a <= b THEN a ELSE b

\* Math.random(), in tenths: a value of [0, 1)
RandomTenths == {0, 5, 9}

\* calculateRetryDelay(attempt) (lines 29-37): the doubled delay, capped, with
\* a jitter of 0.2 * (Math.random() - 0.5) of it, rounded down
calculateRetryDelay(attempt, random) ==
    LET exponentialDelay == Min(INITIAL_RETRY_DELAY_MS * Pow2(attempt), MAX_RETRY_DELAY_MS)
    IN  (exponentialDelay * (90 + 2 * random)) \div 100

\* setTimeout(resolve, ms): the timer a retry sleeps on
SetTimeout(ms) == [api |-> "setTimeout", sn |-> "", on |-> FALSE, url |-> "", ms |-> ms]

\* a pending load: where it waits, its attempt and its caller
Load(pc, attempt, caller) ==
    [pc |-> pc, attempt |-> attempt, caller |-> caller]

\* variant: only the first serial is subscribed
SubscribeFirst(topics, sns) == IF Len(sns) = 0 THEN topics ELSE topics \cup {sns[1]}

\* variant: the topics of serials that are no longer loaded are unsubscribed
SubscribeOnlyLoaded(topics, sns) == Range(sns)

\* subscribeToAllDrones (lines 373-390): the topics requested so far
SubscribeAll(topics, sns) == topics \cup Range(sns)

\* variant: giving up leaves databaseConnected as it was
ConnectedAfterLoadStale(connected, answer, last) ==
    IF Loaded(answer) THEN TRUE ELSE connected

\* databaseConnected after an attempt (lines 66 and 72-79)
ConnectedAfterLoad(connected, answer, last) ==
    IF Loaded(answer) THEN TRUE ELSE IF last THEN FALSE ELSE connected

\* loadDronesFromAPI() is called: its first GET is sent
LoadEnter(caller) ==
    /\ ~MicrotaskPending
    /\ BagCardinality(loads) < MaxLoads
    /\ loads' = loads (+) SetToBag({Load("get", 0, caller)})
    /\ Observe({})
    /\ ev' = Event(caller, "", "", FALSE, {GetAll})
    /\ UNCHANGED <<monitorVars, backendVars, notifyVars, redisVars>>
    /\ UNCHANGED <<dronesConfig, droneSNs, databaseConnected, retryCount, subscribed,
                   registryUp, cachedToken, startedStreams, droneLastMessageTime,
                   tasks, sweeps, now, watchdogDue>>

\* mqttClient.on('connect') (lines 357-370), on every (re)connection
MqttConnect == LoadEnter("connect")

\* the reconnection setInterval (lines 151-164)
ReconnectCheck == ~databaseConnected /\ LoadEnter("reconnect")

\* the GET of a load is answered (lines 47-83); on success the caller
\* subscribes (lines 156-159 and 363-365)
LoadRespond(l, answer) ==
    LET last == l.attempt >= MAX_RETRY_ATTEMPTS - 1
    IN  /\ BagIn(l, loads) /\ l.pc = "get"
        /\ ~MicrotaskPending
        /\ answer \in ListAnswers(registryUp)
        /\ dronesConfig' = LoadedConfig(dronesConfig, answer)
        /\ droneSNs' = IF Loaded(answer) THEN Serials(dronesConfig') ELSE droneSNs
        /\ databaseConnected' = ConnectedAfterLoad(databaseConnected, answer, last)
        /\ retryCount' = IF Loaded(answer) THEN 0
                         ELSE IF last THEN l.attempt + 1 ELSE retryCount
        /\ loads' = IF Loaded(answer) \/ last
                     THEN loads (-) SetToBag({l})
                     ELSE (loads (-) SetToBag({l})) (+) SetToBag({[l EXCEPT !.pc = "sleep"]})
        /\ subscribed' = IF Loaded(answer) THEN SubscribeAll(subscribed, droneSNs')
                         ELSE subscribed
        /\ Observe({})
        /\ IF Loaded(answer) \/ last
           THEN ev' = Event("load", l.caller, IF Loaded(answer) THEN "ok" ELSE "fail", FALSE, {})
           ELSE \E random \in RandomTenths :
                   ev' = Event("load", l.caller, "retry", FALSE,
                               {SetTimeout(calculateRetryDelay(l.attempt, random))})
        /\ UNCHANGED <<monitorVars, backendVars, notifyVars, redisVars>>
        /\ UNCHANGED <<registryUp, cachedToken, startedStreams, droneLastMessageTime,
                       tasks, sweeps, now, watchdogDue>>

\* sleep(delay) is over: loadDronesFromAPI(attempt + 1) sends its GET
LoadWake(l) ==
    /\ BagIn(l, loads) /\ l.pc = "sleep"
    /\ ~MicrotaskPending
    /\ loads' = (loads (-) SetToBag({l})) (+)
                SetToBag({[l EXCEPT !.pc = "get", !.attempt = l.attempt + 1]})
    /\ Observe({})
    /\ ev' = Event("loadWake", l.caller, "", FALSE, {GetAll})
    /\ UNCHANGED <<monitorVars, backendVars, notifyVars, redisVars>>
    /\ UNCHANGED <<dronesConfig, droneSNs, databaseConnected, retryCount, subscribed,
                   registryUp, cachedToken, startedStreams, droneLastMessageTime,
                   tasks, sweeps, now, watchdogDue>>

\* environment: the registry becomes reachable or unreachable
RegistryToggle ==
    /\ registryUp' = ~registryUp
    /\ Observe({})
    /\ ev' = Event("registry", "", IF registryUp THEN "down" ELSE "up", FALSE, {})
    /\ UNCHANGED <<monitorVars, backendVars, notifyVars, redisVars>>
    /\ UNCHANGED <<dronesConfig, droneSNs, databaseConnected, retryCount, subscribed,
                   loads, cachedToken, startedStreams, droneLastMessageTime,
                   tasks, sweeps, now, watchdogDue>>

(* ------------------------------------------------------------------ *)
(* Stream monitor (stream_monitor_server.js)                           *)
(* ------------------------------------------------------------------ *)
MONITOR_MAX_RETRY_ATTEMPTS == 3
UPDATE_RETRY_LIMIT == 2
MONITOR_RETRY_DELAY_MS == 5000
MONITORED_DEVICE_TYPES == {"BODY CAM", "CCTV"}

MonitoredSerials == {"cam1"}
CameraUrl == "rtsp://cam1"

toLowerCase(str) ==
    CASE str = "BODY CAM" -> "body cam"
      [] str = "Body Cam" -> "body cam"
      [] str = "CCTV" -> "cctv"
      [] OTHER -> str

isMonitoredDeviceType(deviceCategory) ==
    \E type \in MONITORED_DEVICE_TYPES :
        deviceCategory # "" /\ toLowerCase(deviceCategory) = toLowerCase(type)

MonitorRecord(sn, category, url, on) ==
    [deviceSerialNumber |-> sn, deviceCategory |-> category,
     streamUrl |-> url, streamIsOn |-> on]

\* what GET /drones answers to the monitor: a body cam with or without a
\* stream URL and a drone, or an error, a timeout or an invalid structure
MonitorAnswers(up, isOn) ==
    IF up
    THEN {Ok(<<MonitorRecord("d1", "Drone", "", FALSE),
               MonitorRecord("cam1", "Body Cam", url, isOn["cam1"])>>) :
            url \in {CameraUrl, ""}}
    ELSE {ErrorAnswer}

\* allDevices.filter(device => isMonitoredDeviceType(device.deviceCategory))
FilterMonitored(allDevices) ==
    SelectSeq(allDevices, LAMBDA device : isMonitoredDeviceType(device.deviceCategory))

MonitorPatch(sn, on) == [api |-> "monitorPatch", sn |-> sn, on |-> on, url |-> ""]

\* a pending checkDeviceStream: the device object it was called with, the
\* status it reports, the retryAttempt of its PATCH, and whether
\* deviceStatusCache.set follows the PATCH
Check(device, pc, on, retryAttempt, setsCache) ==
    [sn |-> device.deviceSerialNumber, device |-> device, pc |-> pc, on |-> on,
     retryAttempt |-> retryAttempt, setsCache |-> setsCache]

StatusOf(on) == IF on THEN "true" ELSE "false"

\* the probes of the last two cycles: the result, whether the check sent a
\* PATCH for it, and whether the registry stored that result already
Checked(log, on, patched, stored) ==
    LET c == [on |-> on, patched |-> patched, stored |-> stored]
    IN  IF Len(log) < 2 THEN Append(log, c) ELSE <<log[2], c>>

\* previousStatus !== true || !device.streamIsOn  (line 240)
\* previousStatus !== false || device.streamIsOn  (line 257)
NeedsUpdate(previousStatus, device, on) ==
    IF on THEN previousStatus # "true" \/ ~device.streamIsOn
          ELSE previousStatus # "false" \/ device.streamIsOn

\* checkDeviceStream up to its first await (lines 217-234)
CheckEnter(device) ==
    IF device.streamUrl = ""
    THEN IF device.streamIsOn
         THEN [check |-> {Check(device, "patch", FALSE, 0, FALSE)},
               calls |-> {MonitorPatch(device.deviceSerialNumber, FALSE)}]
         ELSE [check |-> {}, calls |-> {}]
    ELSE [check |-> {Check(device, "probe", FALSE, 0, TRUE)}, calls |-> {}]

\* monitorAllStreams up to Promise.allSettled (lines 275-287)
monitorAllStreams(devs) ==
    [checks |-> UNION {CheckEnter(devs[i]).check : i \in 1..Len(devs)},
     calls |-> UNION {CheckEnter(devs[i]).calls : i \in 1..Len(devs)},
     skipped |-> {devs[i].deviceSerialNumber : i \in {j \in 1..Len(devs) : devs[j].streamUrl = ""}}]

MonitorIdleNow == monitorLoads = {} /\ checking = {}

\* a cycle starts its checks: a device without a stream URL is decided at
\* once and not probed, so that its next probe follows no probe
RunChecks(devs) ==
    LET r == monitorAllStreams(devs)
    IN  /\ checking' = r.checks
        /\ checks' = [sn \in MonitoredSerials |->
                        IF sn \in r.skipped THEN <<>> ELSE checks[sn]]

\* variant: loadDevicesFromAPI never takes an attempt for its last
LastAttemptNever(attempt) == FALSE

\* the negation of attempt < MAX_RETRY_ATTEMPTS - 1  (line 118)
LastAttempt(attempt) == attempt >= MONITOR_MAX_RETRY_ATTEMPTS - 1

\* startMonitoring (lines 311-321) up to its await of the first load
StartMonitoring ==
    /\ ~isMonitoring
    /\ isMonitoring' = TRUE
    /\ monitorLoads' = {Load("get", 0, "startup")}
    /\ ev' = Event("startMonitoring", "", "", FALSE, {GetAll})
    /\ UNCHANGED <<devices, deviceStatusCache, monitorDatabaseConnected, checking,
                   registryStreamIsOn, checks>>
    /\ UNCHANGED <<telemetryVars, registryUp, backendVars, notifyVars, redisVars>>

\* the GET of loadDevicesFromAPI is answered (lines 89-128); when the load
\* ends, its caller goes on (lines 323-330, 340-341, 353-355)
MonitorLoadRespond(l, answer) ==
    LET ok == answer.status = "ok"
        last == LastAttempt(l.attempt)
        loaded == IF ok THEN FilterMonitored(answer.drones) ELSE devices
        proceeds == (ok \/ last) /\
                    \/ l.caller = "cycle"
                    \/ l.caller = "startup" /\ Len(loaded) > 0
    IN  /\ l \in monitorLoads /\ l.pc = "get"
        /\ answer \in MonitorAnswers(registryUp, registryStreamIsOn)
        /\ devices' = loaded
        /\ monitorDatabaseConnected' =
              IF ok THEN TRUE ELSE IF last THEN FALSE ELSE monitorDatabaseConnected
        /\ monitorLoads' = IF ok \/ last
                           THEN monitorLoads \ {l}
                           ELSE (monitorLoads \ {l}) \cup
                                {[l EXCEPT !.pc = "sleep"]}
        /\ IF proceeds THEN RunChecks(loaded) ELSE UNCHANGED <<checking, checks>>
        /\ ev' = Event("monitorLoad", l.caller,
                       IF ok THEN "ok" ELSE IF last THEN "fail" ELSE "retry", FALSE,
                       IF proceeds THEN monitorAllStreams(loaded).calls
                       ELSE IF ok \/ last THEN {}
                       ELSE {SetTimeout(MONITOR_RETRY_DELAY_MS * (l.attempt + 1))})
        /\ UNCHANGED <<deviceStatusCache, isMonitoring, registryStreamIsOn>>
        /\ UNCHANGED <<telemetryVars, registryUp, backendVars, notifyVars, redisVars>>

\* sleep(RETRY_DELAY_MS * (attempt + 1)) is over (lines 119-122)
MonitorLoadWake(l) ==
    /\ l \in monitorLoads /\ l.pc = "sleep"
    /\ monitorLoads' = (monitorLoads \ {l}) \cup
                       {[l EXCEPT !.pc = "get", !.attempt = l.attempt + 1]}
    /\ ev' = Event("monitorLoadWake", l.caller, "", FALSE, {GetAll})
    /\ UNCHANGED <<devices, deviceStatusCache, isMonitoring, monitorDatabaseConnected,
                   checking, registryStreamIsOn, checks>>
    /\ UNCHANGED <<telemetryVars, registryUp, backendVars, notifyVars, redisVars>>

\* the monitoring setInterval (lines 333-346); a cycle starts when the
\* previous one is over
CycleFire ==
    /\ isMonitoring /\ MonitorIdleNow
    /\ IF monitorDatabaseConnected
       THEN /\ monitorLoads' = {Load("get", 0, "cycle")}
            /\ ev' = Event("cycle", "", "reload", FALSE, {GetAll})
            /\ UNCHANGED <<checking, checks>>
       ELSE /\ RunChecks(devices)
            /\ ev' = Event("cycle", "", "skip", FALSE, monitorAllStreams(devices).calls)
            /\ UNCHANGED monitorLoads
    /\ UNCHANGED <<devices, deviceStatusCache, isMonitoring, monitorDatabaseConnected,
                   registryStreamIsOn>>
    /\ UNCHANGED <<telemetryVars, registryUp, backendVars, notifyVars, redisVars>>

\* the reconnection setInterval (lines 349-357)
MonitorReconnectCheck ==
    /\ isMonitoring /\ MonitorIdleNow
    /\ ~monitorDatabaseConnected
    /\ monitorLoads' = {Load("get", 0, "reconnect")}
    /\ ev' = Event("monitorReconnect", "", "", FALSE, {GetAll})
    /\ UNCHANGED <<devices, deviceStatusCache, isMonitoring, monitorDatabaseConnected,
                   checking, registryStreamIsOn, checks>>
    /\ UNCHANGED <<telemetryVars, registryUp, backendVars, notifyVars, redisVars>>

\* checkStreamHealth settles (lines 234-260)
ProbeRespond(c, online) ==
    LET previousStatus == deviceStatusCache[c.sn]
        update == NeedsUpdate(previousStatus, c.device, online)
        calls == IF update THEN {MonitorPatch(c.sn, online)} ELSE {}
    IN  /\ c \in checking /\ c.pc = "probe"
        /\ checking' = IF update
                       THEN (checking \ {c}) \cup {[c EXCEPT !.pc = "patch", !.on = online]}
                       ELSE checking \ {c}
        /\ deviceStatusCache' = IF update THEN deviceStatusCache
                                ELSE [deviceStatusCache EXCEPT ![c.sn] = StatusOf(online)]
        /\ checks' = [checks EXCEPT ![c.sn] =
                          Checked(@, online, update, registryStreamIsOn[c.sn] = online)]
        /\ ev' = Event("probe", c.sn, StatusOf(online),
                       registryStreamIsOn[c.sn] = online, calls)
        /\ UNCHANGED <<devices, isMonitoring, monitorDatabaseConnected, monitorLoads,
                       registryStreamIsOn>>
        /\ UNCHANGED <<telemetryVars, registryUp, backendVars, notifyVars, redisVars>>

\* the PATCH of updateDeviceStreamStatus is answered (lines 137-165), and
\* when the update returns, checkDeviceStream goes on (lines 243, 260)
MonitorPatchRespond(c, outcome) ==
    LET retries == outcome = "error" /\ c.retryAttempt < UPDATE_RETRY_LIMIT
    IN  /\ c \in checking /\ c.pc = "patch"
        /\ outcome \in (IF registryUp THEN {"ok", "rejected", "error"} ELSE {"error"})
        /\ registryStreamIsOn' = IF outcome = "ok"
                                 THEN [registryStreamIsOn EXCEPT ![c.sn] = c.on]
                                 ELSE registryStreamIsOn
        /\ monitorDatabaseConnected' =
              IF outcome = "error" /\ ~retries THEN FALSE ELSE monitorDatabaseConnected
        /\ checking' = IF retries
                       THEN (checking \ {c}) \cup {[c EXCEPT !.pc = "patchSleep"]}
                       ELSE checking \ {c}
        /\ deviceStatusCache' = IF ~retries /\ c.setsCache
                                THEN [deviceStatusCache EXCEPT ![c.sn] = StatusOf(c.on)]
                                ELSE deviceStatusCache
        /\ ev' = Event("monitorPatched", c.sn,
                       IF retries THEN "retry" ELSE outcome, FALSE, {})
        /\ UNCHANGED <<devices, isMonitoring, monitorLoads, checks>>
        /\ UNCHANGED <<telemetryVars, registryUp, backendVars, notifyVars, redisVars>>

\* sleep(2000) is over: updateDeviceStreamStatus(..., retryAttempt + 1)
MonitorPatchWake(c) ==
    /\ c \in checking /\ c.pc = "patchSleep"
    /\ checking' = (checking \ {c}) \cup
                   {[c EXCEPT !.pc = "patch", !.retryAttempt = c.retryAttempt + 1]}
    /\ ev' = Event("monitorPatchWake", c.sn, "", FALSE, {MonitorPatch(c.sn, c.on)})
    /\ UNCHANGED <<devices, deviceStatusCache, isMonitoring, monitorDatabaseConnected,
                   monitorLoads, registryStreamIsOn, checks>>
    /\ UNCHANGED <<telemetryVars, registryUp, backendVars, notifyVars, redisVars>>

\* the monitor before startMonitoring() is called
MonitorIdle ==
    /\ devices = <<>>
    /\ deviceStatusCache = [sn \in MonitoredSerials |-> "undefined"]
    /\ isMonitoring = FALSE
    /\ monitorDatabaseConnected = FALSE
    /\ monitorLoads = {}
    /\ checking = {}
    /\ registryStreamIsOn = [sn \in MonitoredSerials |-> FALSE]
    /\ checks = [sn \in MonitoredSerials |-> <<>>]

(* ------------------------------------------------------------------ *)
(* Drone API and its event bridge (droneController.ts,                 *)
(* eventPublisher.ts, redisManager.ts, websocketServer.ts)             *)
(* ------------------------------------------------------------------ *)
\* API operations that may be called in a behaviour
MaxChanges == 1

ApiSerials == {"d1", "d2"}
Clients == {"c1"}
ApiOps == {"register", "update", "delete", "deleteAll"}

\* the event an operation is to publish (QUICK_START.md, Event Types)
EventOf(op) ==
    CASE op = "register" -> "drone.created"
      [] op = "update" -> "drone.updated"
      [] OTHER -> "drone.deleted"

\* a publication: redisManager.publish(`drone:${part}:${kind}`, event)
Publication(part, kind, event, sn, change) ==
    [channel |-> <<"drone", part, kind>>, event |-> event, serialNumber |-> sn,
     change |-> change]

\* the publications of an operation, in order (eventPublisher.ts 36-52,
\* 57-94, 140-156; droneController.ts 39, 225-230, 259, 268-270)
Publications(op, sn, change, streamChanged) ==
    CASE op = "register" ->
            <<Publication(sn, "created", "drone.created", sn, change),
              Publication("all", "created", "drone.created", sn, change)>>
      [] op = "update" ->
            <<Publication(sn, "updated", "drone.updated", sn, change)>> \o
            (IF streamChanged
             THEN <<Publication(sn, "stream", "drone.stream.status", sn, change)>>
             ELSE <<>>)
      [] op = "delete" ->
            <<Publication(sn, "deleted", "drone.deleted", sn, change),
              Publication("all", "deleted", "drone.deleted", sn, change)>>
      [] OTHER -> <<>>

\* a pending request: pc is where the controller waits, oldDrone the
\* streamIsOn of the record an update has found, todo the publications it
\* has still to make
Request(change, op, sn, streamIsOn, pc, oldDrone, todo) ==
    [change |-> change, op |-> op, sn |-> sn, streamIsOn |-> streamIsOn,
     pc |-> pc, oldDrone |-> oldDrone, todo |-> todo]

Subscription(connected, subscribeAll, droneSerial) ==
    [connected |-> connected, subscribeAll |-> subscribeAll, droneSerial |-> droneSerial]

\* the log entry of an operation: the records it changed, the clients that
\* were subscribed to all events when it was called and have stayed so,
\* what it published, and whether Redis was connected whenever it ran
Change(op, sn, changed, audience, published, redisUp, done) ==
    [op |-> op, sn |-> sn, changed |-> changed, audience |-> audience,
     published |-> published, redisUp |-> redisUp, done |-> done]

AllSubscribers == {c \in Clients : connectedClients[c].connected /\ connectedClients[c].subscribeAll}

\* a request arrives (droneRoutes.ts 15-29) from a caller that has the
\* response to its request before; the controller sends its first database
\* call
ApiCall(op, sn, streamIsOn) ==
    /\ Len(changes) < MaxChanges
    /\ requests = {}
    /\ requests' = requests \cup
          {Request(Len(changes) + 1, op, sn, streamIsOn,
                   IF op = "update" THEN "find" ELSE "db", "none", <<>>)}
    /\ changes' = Append(changes,
                         Change(op, sn, {}, AllSubscribers, {}, redisConnected, FALSE))
    /\ UNCHANGED <<droneDb, redisConnected, bus, connectedClients, delivered>>
    /\ UNCHANGED <<telemetryVars, registryUp, ev, monitorVars, notifyVars, redisVars>>

\* redisManager.publish (lines 109-122) called for the publications of todo
\* one after the other: it returns at once while Redis is not connected
\* and waits for the client otherwise
PublishFrom(r, todo, log) ==
    IF todo = <<>> \/ ~redisConnected
    THEN [requests |-> requests \ {r}, bus |-> bus,
          change |-> [log EXCEPT !.done = TRUE, !.redisUp = @ /\ redisConnected]]
    ELSE [requests |-> (requests \ {r}) \cup {[r EXCEPT !.pc = "publish", !.todo = Tail(todo)]},
          bus |-> Append(bus, Head(todo)),
          change |-> [log EXCEPT !.published = @ \cup {Head(todo)},
                                 !.redisUp = @ /\ redisConnected]]

\* DroneModel.findOne of an update is answered (droneController.ts 187-191)
FindRespond(r) ==
    /\ r \in requests /\ r.pc = "find"
    /\ IF droneDb[r.sn] = "none"
       THEN /\ requests' = requests \ {r}
            /\ changes' = [changes EXCEPT ![r.change].done = TRUE,
                                          ![r.change].redisUp = @ /\ redisConnected]
       ELSE /\ requests' = (requests \ {r}) \cup
                           {[r EXCEPT !.pc = "db", !.oldDrone = droneDb[r.sn]]}
            /\ changes' = [changes EXCEPT ![r.change].redisUp = @ /\ redisConnected]
    /\ UNCHANGED <<droneDb, redisConnected, bus, connectedClients, delivered>>
    /\ UNCHANGED <<telemetryVars, registryUp, ev, monitorVars, notifyVars, redisVars>>

\* the records an operation changes in the collection
ChangedBy(r, db) ==
    CASE r.op = "register" -> IF db[r.sn] = "none" THEN {r.sn} ELSE {}
      [] r.op = "deleteAll" -> {sn \in ApiSerials : db[sn] # "none"}
      [] OTHER -> IF db[r.sn] = "none" THEN {} ELSE {r.sn}

DbAfter(r, db) ==
    CASE r.op = "register" ->
            IF db[r.sn] = "none" THEN [db EXCEPT ![r.sn] = StatusOf(r.streamIsOn)] ELSE db
      [] r.op = "update" ->
            IF db[r.sn] = "none" THEN db ELSE [db EXCEPT ![r.sn] = StatusOf(r.streamIsOn)]
      [] r.op = "delete" -> [db EXCEPT ![r.sn] = "none"]
      [] OTHER -> [sn \in ApiSerials |-> "none"]

\* the database call that changes the collection is answered
\* (droneController.ts 17-39, 193-230, 252-259, 269-277), and the controller
\* goes on to publish
DbRespond(r) ==
    LET changed == ChangedBy(r, droneDb)
        streamChanged == r.op = "update" /\ r.oldDrone # StatusOf(r.streamIsOn)
        todo == IF changed = {} THEN <<>>
                ELSE Publications(r.op, r.sn, r.change, streamChanged)
        p == PublishFrom(r, todo, [changes[r.change] EXCEPT !.changed = changed])
    IN  /\ r \in requests /\ r.pc = "db"
        /\ droneDb' = DbAfter(r, droneDb)
        /\ requests' = p.requests
        /\ bus' = p.bus
        /\ changes' = [changes EXCEPT ![r.change] = p.change]
        /\ UNCHANGED <<redisConnected, connectedClients, delivered>>
        /\ UNCHANGED <<telemetryVars, registryUp, ev, monitorVars, notifyVars, redisVars>>

\* publisher.publish has returned: the next publication, or the response
PublishRespond(r) ==
    LET p == PublishFrom(r, r.todo, changes[r.change])
    IN  /\ r \in requests /\ r.pc = "publish"
        /\ requests' = p.requests
        /\ bus' = p.bus
        /\ changes' = [changes EXCEPT ![r.change] = p.change]
        /\ UNCHANGED <<droneDb, redisConnected, connectedClients, delivered>>
        /\ UNCHANGED <<telemetryVars, registryUp, ev, monitorVars, notifyVars, redisVars>>

\* the connection to Redis is lost (redisManager.ts 45-53, 84-102) or
\* initialize() has connected again (lines 64-71)
RedisToggle ==
    /\ redisConnected' = ~redisConnected
    /\ UNCHANGED <<droneDb, requests, bus, connectedClients, delivered, changes>>
    /\ UNCHANGED <<telemetryVars, registryUp, ev, monitorVars, notifyVars, redisVars>>

\* variant: broadcastEvent without its test of the subscription
shouldReceiveAlways(subscriptions, droneSerial) == TRUE

\* subscriptions.subscribeAll || subscriptions.droneSerial === droneSerial
shouldReceive(subscriptions, droneSerial) ==
    subscriptions.subscribeAll \/ subscriptions.droneSerial = droneSerial

\* the pattern subscription 'drone:*' delivers a message: broadcastEvent
\* (websocketServer.ts 144-146, 159-186)
Deliver ==
    LET message == Head(bus)
        droneSerial == message.channel[2]
    IN  /\ bus # <<>>
        /\ bus' = Tail(bus)
        /\ delivered' = [c \in Clients |->
                            IF /\ connectedClients[c].connected
                               /\ shouldReceive(connectedClients[c], droneSerial)
                            THEN Append(delivered[c], message)
                            ELSE delivered[c]]
        /\ UNCHANGED <<droneDb, redisConnected, requests, connectedClients, changes>>
        /\ UNCHANGED <<telemetryVars, registryUp, ev, monitorVars, notifyVars, redisVars>>

\* a client whose subscription changes no longer counts as a subscriber of
\* all events of the operations called before
Leaves(c) == [k \in DOMAIN changes |-> [changes[k] EXCEPT !.audience = @ \ {c}]]

\* handleClientConnection (lines 50-64) and the 'disconnect' handler (82-85)
ClientConnects(c) ==
    /\ ~connectedClients[c].connected
    /\ connectedClients' = [connectedClients EXCEPT ![c] = Subscription(TRUE, FALSE, "")]
    /\ UNCHANGED <<droneDb, redisConnected, requests, bus, delivered, changes>>
    /\ UNCHANGED <<telemetryVars, registryUp, ev, monitorVars, notifyVars, redisVars>>

ClientDisconnects(c) ==
    /\ connectedClients[c].connected
    /\ connectedClients' = [connectedClients EXCEPT ![c] = Subscription(FALSE, FALSE, "")]
    /\ changes' = Leaves(c)
    /\ UNCHANGED <<droneDb, redisConnected, requests, bus, delivered>>
    /\ UNCHANGED <<telemetryVars, registryUp, ev, monitorVars, notifyVars, redisVars>>

\* handleSubscribe (lines 96-121): data.all, or data.droneSerial
ClientSubscribes(c, all, droneSerial) ==
    /\ connectedClients[c].connected
    /\ connectedClients' = [connectedClients EXCEPT ![c] =
          IF all THEN Subscription(TRUE, TRUE, "")
          ELSE IF droneSerial # "" THEN Subscription(TRUE, FALSE, droneSerial)
          ELSE @]
    /\ changes' = IF connectedClients'[c].subscribeAll THEN changes ELSE Leaves(c)
    /\ UNCHANGED <<droneDb, redisConnected, requests, bus, delivered>>
    /\ UNCHANGED <<telemetryVars, registryUp, ev, monitorVars, notifyVars, redisVars>>

\* handleUnsubscribe (lines 126-137)
ClientUnsubscribes(c) ==
    /\ connectedClients[c].connected
    /\ connectedClients' = [connectedClients EXCEPT ![c] = Subscription(TRUE, FALSE, "")]
    /\ changes' = Leaves(c)
    /\ UNCHANGED <<droneDb, redisConnected, requests, bus, delivered>>
    /\ UNCHANGED <<telemetryVars, registryUp, ev, monitorVars, notifyVars, redisVars>>

\* the API server after initializeServices() (server.ts 15-29), with one
\* record in the collection and no client
BackendIdle ==
    /\ droneDb = [sn \in ApiSerials |-> IF sn = "d1" THEN StatusOf(FALSE) ELSE "none"]
    /\ redisConnected = TRUE
    /\ requests = {}
    /\ bus = <<>>
    /\ connectedClients = [c \in Clients |-> Subscription(FALSE, FALSE, "")]
    /\ delivered = [c \in Clients |-> <<>>]
    /\ changes = <<>>

(* ------------------------------------------------------------------ *)
(* Redis manager (redisManager.ts): its connections and reconnects     *)
(* ------------------------------------------------------------------ *)
maxReconnectAttempts == 10

\* reconnect timers and initialize() calls that may be pending together
MaxReconnects == 2
\* connections of one role that may be open together
MaxLive == 2

\* handleReconnect (lines 84-102) as seen from its caller: the counter,
\* isConnected and the number of pending timers afterwards
handleReconnect(attempts, connected, timers) ==
    IF attempts >= maxReconnectAttempts
    THEN [attempts |-> attempts, connected |-> connected, timers |-> timers]
    ELSE [attempts |-> attempts + 1, connected |-> FALSE, timers |-> timers + 1]

RedisApply(r) ==
    /\ reconnectAttempts' = r.attempts
    /\ redisConnected' = r.connected
    /\ reconnectTimers' = r.timers

\* the connection of a connected client breaks: the client emits 'error'
\* and its handler calls handleReconnect (lines 45-53)
RedisClientError(role) ==
    /\ reconnectTimers + initializing < MaxReconnects
    /\ IF role = "publisher"
       THEN /\ livePublishers > 0
            /\ livePublishers' = livePublishers - 1
            /\ UNCHANGED liveSubscribers
       ELSE /\ liveSubscribers > 0
            /\ liveSubscribers' = liveSubscribers - 1
            /\ UNCHANGED livePublishers
    /\ RedisApply(handleReconnect(reconnectAttempts, redisConnected, reconnectTimers))
    /\ ev' = Event("redisError", role, "", FALSE, {})
    /\ UNCHANGED initializing
    /\ UNCHANGED <<droneDb, requests, bus, connectedClients, delivered, changes>>
    /\ UNCHANGED <<telemetryVars, registryUp, monitorVars, notifyVars>>

\* a reconnect timer fires (lines 95-101): initialize() creates a new
\* publisher and a new subscriber and awaits their connect (lines 32-68)
RedisTimerFire ==
    /\ reconnectTimers > 0
    /\ reconnectTimers' = reconnectTimers - 1
    /\ initializing' = initializing + 1
    /\ ev' = Event("redisTimer", "", "", FALSE, {})
    /\ UNCHANGED <<reconnectAttempts, livePublishers, liveSubscribers>>
    /\ UNCHANGED <<droneDb, redisConnected, requests, bus, connectedClients, delivered, changes>>
    /\ UNCHANGED <<telemetryVars, registryUp, monitorVars, notifyVars>>

\* Promise.all of the two connects settles (lines 65-78)
RedisConnectRespond(ok) ==
    /\ initializing > 0
    /\ initializing' = initializing - 1
    /\ IF ok
       THEN /\ livePublishers < MaxLive /\ liveSubscribers < MaxLive
            /\ livePublishers' = livePublishers + 1
            /\ liveSubscribers' = liveSubscribers + 1
            /\ RedisApply([attempts |-> 0, connected |-> TRUE, timers |-> reconnectTimers])
       ELSE /\ UNCHANGED <<livePublishers, liveSubscribers>>
            /\ RedisApply(handleReconnect(reconnectAttempts, redisConnected, reconnectTimers))
    /\ ev' = Event("redisInit", "", IF ok THEN "ok" ELSE "fail", FALSE, {})
    /\ UNCHANGED <<droneDb, requests, bus, connectedClients, delivered, changes>>
    /\ UNCHANGED <<telemetryVars, registryUp, monitorVars, notifyVars>>

\* after the startup initialize() has succeeded (server.ts line 21)
RedisIdle ==
    /\ reconnectAttempts = 0
    /\ reconnectTimers = 0
    /\ initializing = 0
    /\ livePublishers = 1
    /\ liveSubscribers = 1

(* ------------------------------------------------------------------ *)
(* Notification server (filtered_notification_server.js)               *)
(* ------------------------------------------------------------------ *)
SIMILARITY_THRESHOLD == 5
DETECTION_WINDOW == 30000
MAX_STORED_DETECTIONS == 100
CLEANUP_INTERVAL_MS == 10000

\* runs of the cleanup timer after which the clock stops
MaxCleanups == 4
\* /notify requests that may await their image hash at the same time
MaxNotify == 2

\* a perceptual hash of 64 bits: the set of the positions of its 1 bits
\* hammingDistance(a, b): the number of positions where the two differ
hammingDistance(a, b) == Cardinality((a \ b) \cup (b \ a))

\* the hash of frame number i (below 128) of a camera: any two frames are
\* at least 6 bits apart
FrameHash(i) ==
    {6 * b + r : b \in {c \in 0..6 : (i \div Pow2(c)) % 2 = 1}, r \in 0..5}

\* the hash of a frame that differs from another in one bit
NearCopy(h) == IF 63 \in h THEN h \ {63} ELSE h \cup {63}

DeviceName == "dev1"

\* the body of a /notify request, its image given by its hash
Detection(h, object_class) ==
    [hash |-> h, object_class |-> object_class, device_name |-> DeviceName]

\* what recentDetections holds under a hash
Stored(timestamp, d) ==
    [timestamp |-> timestamp, object_class |-> d.object_class, device_name |-> d.device_name]

\* what the detectors send: two frames later than a full store, a near
\* copy of the first, and the first with an object of another class
Detections ==
    {Detection(FrameHash(MAX_STORED_DETECTIONS + 1), "person"),
     Detection(NearCopy(FrameHash(MAX_STORED_DETECTIONS + 1)), "person"),
     Detection(FrameHash(MAX_STORED_DETECTIONS + 1), "car"),
     Detection(FrameHash(MAX_STORED_DETECTIONS + 2), "person")}

\* the loop of lines 140-157: some stored detection of the same class and
\* device is within the threshold
isDuplicate(store, d) ==
    \E i \in 1..Len(store) :
        /\ store[i].v.object_class = d.object_class
        /\ store[i].v.device_name = d.device_name
        /\ hammingDistance(d.hash, store[i].k) <= SIMILARITY_THRESHOLD

\* variant: the detection is stored without the test of the size
StoreDetectionUnlimited(store, d, time) == MapSet(store, d.hash, Stored(time, d))

\* lines 161-170: drop the oldest entry of a full store, then set
StoreDetection(store, d, time) ==
    LET room == IF Len(store) >= MAX_STORED_DETECTIONS
                THEN MapDelete(store, store[1].k)
                ELSE store
    IN  MapSet(room, d.hash, Stored(time, d))

\* the cleanup loop (lines 101-106)
Cleanup(store, time) ==
    SelectSeq(store, LAMBDA e : ~(time - e.v.timestamp > DETECTION_WINDOW))

\* POST /notify up to its await hash(...) (lines 114-133); without a frame
\* the request is answered at once
NotifyReceive(d, hasFrame) ==
    /\ hasFrame => BagCardinality(notifyRequests) < MaxNotify
    /\ notifyRequests' = IF hasFrame THEN notifyRequests (+) SetToBag({d}) ELSE notifyRequests
    /\ ev' = Event("notifyReceive", d.device_name, IF hasFrame THEN "frame" ELSE "noframe",
                   FALSE, {})
    /\ UNCHANGED <<recentDetections, notifyNow>>
    /\ UNCHANGED <<telemetryVars, registryUp, monitorVars, backendVars, redisVars>>

\* insertDetection.run(...) and io.emit('new-detection', ...)
InsertDetection(d) == [api |-> "insert", sn |-> d.device_name, on |-> FALSE, url |-> d.object_class]
EmitDetection(d) == [api |-> "emit", sn |-> d.device_name, on |-> FALSE, url |-> d.object_class]

\* the hash is there, or hash(...) has thrown (lines 135-229); an INSERT
\* that throws is caught and the event is emitted all the same
NotifyHashed(d, hashOk) ==
    LET duplicate == isDuplicate(recentDetections, d)
        accepted == hashOk /\ ~duplicate
    IN  /\ BagIn(d, notifyRequests)
        /\ notifyRequests' = notifyRequests (-) SetToBag({d})
        /\ recentDetections' = IF accepted
                               THEN StoreDetection(recentDetections, d, notifyNow)
                               ELSE recentDetections
        /\ ev' = Event("notify", d.device_name,
                       IF ~hashOk THEN "error" ELSE IF duplicate THEN "duplicate" ELSE "accepted",
                       FALSE,
                       IF accepted THEN {InsertDetection(d), EmitDetection(d)} ELSE {})
        /\ UNCHANGED notifyNow
        /\ UNCHANGED <<telemetryVars, registryUp, monitorVars, backendVars, redisVars>>

\* the cleanup timer fires, CLEANUP_INTERVAL_MS after its last run (lines 97-111)
NotifyCleanup ==
    /\ notifyNow < MaxCleanups * CLEANUP_INTERVAL_MS
    /\ notifyNow' = notifyNow + CLEANUP_INTERVAL_MS
    /\ recentDetections' = Cleanup(recentDetections, notifyNow')
    /\ ev' = Event("cleanup", "", "", FALSE, {})
    /\ UNCHANGED notifyRequests
    /\ UNCHANGED <<telemetryVars, registryUp, monitorVars, backendVars, redisVars>>

NotifyIdle ==
    /\ recentDetections = <<>>
    /\ notifyRequests = EmptyBag
    /\ notifyNow = 0

(* ------------------------------------------------------------------ *)
(* The lifecycle specification: the registry was loaded at startup     *)
(* ------------------------------------------------------------------ *)
InitRuntime ==
    /\ cachedToken = NoToken
    /\ startedStreams = {}
    /\ droneLastMessageTime = <<>>
    /\ tasks = EmptyBag
    /\ sweeps = {}
    /\ loads = EmptyBag
    /\ now = 0
    /\ watchdogDue = CHECK_INTERVAL_MS
    /\ posts = [sn \in Devices |-> 0]
    /\ reports = [sn \in Devices |-> <<>>]
    /\ ev = Event("init", "", "", FALSE, {})
    /\ MonitorIdle
    /\ BackendIdle
    /\ NotifyIdle
    /\ RedisIdle

Init ==
    /\ dronesConfig = TransformAll(Registry0)
    /\ droneSNs = Serials(TransformAll(Registry0))
    /\ databaseConnected = TRUE
    /\ retryCount = 0
    /\ subscribed = Range(droneSNs)
    /\ registryUp = TRUE
    /\ InitRuntime

Next ==
    \/ \E sn \in Devices, payload \in Payloads : OnMessage(sn, payload)
    \/ \E t \in BagToSet(tasks) : TokenResume(t)
    \/ \E t \in BagToSet(tasks), ok \in BOOLEAN : LoginRespond(t, ok)
    \/ \E t \in BagToSet(tasks), ok \in BOOLEAN : PostRespond(t, ok)
    \/ \E t \in BagToSet(tasks), ok \in BOOLEAN : PatchRespond(t, ok)
    \/ WatchdogFire
    \/ \E s \in sweeps, ok \in BOOLEAN : WatchdogResume(s, ok)
    \/ Tick

Spec == Init /\ [][Next]_vars

(* ------------------------------------------------------------------ *)
(* Properties of the lifecycle                                         *)
(* ------------------------------------------------------------------ *)
TasksOf(sn, pc) == {t \in BagToSet(tasks) : t.sn = sn /\ t.pc = pc}

\* the number of pending startStream activations of sn that are at pc
Pending(sn, pc) == BagCardinality([t \in TasksOf(sn, pc) |-> tasks[t]])

\* C1: at most one start-stream POST per device is outstanding at any instant
C1_OneStartInFlight == \A sn \in Devices : Pending(sn, "post") <= 1

\* C2: the streamIsOn values reported for a device alternate, starting with
\* true: no two consecutive reports carry the same value
C2_ReportsAlternate ==
    \A sn \in Devices :
        /\ Len(reports[sn]) >= 1 => reports[sn][1].on \/ Len(reports[sn]) = 2
        /\ Len(reports[sn]) = 2 => reports[sn][1].on # reports[sn][2].on

\* C3: a STREAMING device has a lastSeen entry, and it is stopped by the
\* first watchdog run after its silence exceeds the inactivity timeout, so
\* its silence never exceeds the timeout by more than one watchdog period
C3_SilentStreamIsStopped ==
    \A sn \in startedStreams :
        /\ MapHas(droneLastMessageTime, sn)
        /\ now - MapGet(droneLastMessageTime, sn)
                <= INACTIVITY_TIMEOUT_MS + CHECK_INTERVAL_MS

\* C4: an absence message processed while the device is IDLE changes
\* nothing but lastSeen and sends no request
C4_AbsenceWhileIdleIsNoop ==
    [][(ev'.op = "message" /\ ev'.arg = "absent" /\ ~ev'.was) =>
            /\ ev'.calls = {}
            /\ UNCHANGED <<dronesConfig, droneSNs, databaseConnected, retryCount,
                           cachedToken, startedStreams, subscribed, tasks, sweeps,
                           loads, now, watchdogDue, registryUp, posts, reports>>]_vars

C4_Witness ==
    /\ ev.op = "message" /\ ev.arg = "absent" /\ ~ev.was
    /\ MapHas(droneLastMessageTime, ev.sn)
    /\ getDroneFirstCamera(dronesConfig, ev.sn) # NoCamera
    /\ Len(reports[ev.sn]) = 2

\* C9: when a step of a start attempt fails, the device is IDLE afterwards
C9_FailedAttemptLeavesIdle ==
    (ev.op \in {"login", "post", "patched"} /\ ev.arg = "fail")
        => ev.sn \notin startedStreams

\* C10: an absence message processed while the device is STREAMING makes it
\* IDLE in that step and sends exactly one report streamIsOn=false, url ""
C10_AbsenceWhileStreamingStops ==
    (ev.op = "message" /\ ev.arg = "absent" /\ ev.was) =>
        /\ ev.sn \notin startedStreams
        /\ ev.calls = {Patch(ev.sn, FALSE, "")}
        /\ reports[ev.sn][Len(reports[ev.sn])] = [on |-> FALSE, url |-> ""]

C10_Witness == ev.op = "message" /\ ev.arg = "absent" /\ ev.was

\* C11: a message whose payload cannot be decoded changes nothing (lastSeen,
\* the devices' states, the cached set, the token) and sends no request
C11_UnparsableIsDiscarded ==
    [][(ev'.op = "message" /\ ev'.arg = "unparsable") =>
            /\ ev'.calls = {}
            /\ UNCHANGED <<dronesConfig, droneSNs, databaseConnected, retryCount,
                           cachedToken, startedStreams, droneLastMessageTime,
                           subscribed, tasks, sweeps, loads, now, watchdogDue,
                           registryUp, posts, reports>>]_vars

\* an undecodable message of a STREAMING device whose lastSeen is older
C11_Witness ==
    /\ ev.op = "message" /\ ev.arg = "unparsable"
    /\ ev.sn \in startedStreams
    /\ MapHas(droneLastMessageTime, ev.sn)
    /\ MapGet(droneLastMessageTime, ev.sn) < now

\* C14: when a start-stream POST has failed, the cached token has been
\* invalidated or a fresh one has been requested by a login
C14_FailedStartInvalidatesToken ==
    (ev.op = "post" /\ ev.arg = "fail") => (cachedToken = NoToken \/ Login \in ev.calls)

\* C15: a login is started only while no token is cached, and a cached
\* token stays cached
C15_LoginOnlyWhenNoToken ==
    [][/\ Login \in ev'.calls => cachedToken = NoToken
       /\ cachedToken # NoToken => cachedToken' = cachedToken]_vars

\* a start attempt went on with the cached token and sent its POST
C15_Witness ==
    /\ ev.op = "token" /\ cachedToken = Token
    /\ \E c \in ev.calls : c.api = "start"

C22_StreamingOnlyAfterStart ==
    [][/\ \A sn \in Devices :
            (sn \notin startedStreams /\ sn \in startedStreams') =>
                /\ ev'.op = "patched" /\ ev'.sn = sn
                /\ Pending(sn, "patch") >= 1
       /\ \A sn \in Devices :
            (Pending(sn, "patch")' > Pending(sn, "patch")) =>
                /\ ev'.op = "post" /\ ev'.arg = "ok" /\ ev'.sn = sn
                /\ Pending(sn, "post") >= 1
                /\ ev'.calls = {Patch(sn, TRUE, StreamUrl)}]_vars

\* an IDLE device has become STREAMING
C22_Witness ==
    /\ ev.op = "patched" /\ ~ev.was
    /\ ev.sn \in startedStreams
    /\ posts[ev.sn] >= 1

\* C23: a device goes from STREAMING to IDLE only in the handler of a message
\* of that device, or in a watchdog sweep that finds its lastSeen older than
\* the inactivity timeout; both send the report streamIsOn=false, url ""
C23_StopOnlyByMessageOrWatchdog ==
    [][\A sn \in Devices :
          (sn \in startedStreams /\ sn \notin startedStreams') =>
              \/ /\ ev'.op = "message" /\ ev'.sn = sn
                 /\ ev'.calls = {Patch(sn, FALSE, "")}
              \/ /\ ev'.op = "watchdog"
                 /\ MapHas(droneLastMessageTime, sn)
                 /\ now - MapGet(droneLastMessageTime, sn) > INACTIVITY_TIMEOUT_MS
                 /\ ev'.calls = {Patch(sn, FALSE, "")}
              \/ /\ ev'.op = "swept"
                 /\ MapHas(droneLastMessageTime, sn)
                 /\ \E s \in sweeps :
                       s.wnow - MapGet(droneLastMessageTime, sn) > INACTIVITY_TIMEOUT_MS
                 /\ ev'.calls = {Patch(sn, FALSE, "")}]_vars

\* the watchdog has stopped a silent device
C23_Witness ==
    /\ ev.op = "watchdog" /\ ev.calls # {}
    /\ \E sn \in Devices : ev.calls = {Patch(sn, FALSE, "")} /\ sn \notin startedStreams

\* C24: a decoded message without a "data" object, processed while the
\* device is STREAMING, makes it IDLE and sends the report streamIsOn=false
C24_MissingDataIsAbsence ==
    (ev.op = "message" /\ ev.arg = "nodata" /\ ev.was) =>
        /\ ev.sn \notin startedStreams
        /\ ev.calls = {Patch(ev.sn, FALSE, "")}

(* ------------------------------------------------------------------ *)
(* The scenario of one presence message, then absence messages, per    *)
(* device, with every external call succeeding.  posts and reports     *)
(* count from the start of the scenario.                               *)
(* ------------------------------------------------------------------ *)
ScenarioRegistry == <<Drone("d1", <<"camA", "camB">>), Drone("d2", <<"camB">>)>>

Busy(sn) == \E t \in BagToSet(tasks) : t.sn = sn

ScenarioInit ==
    /\ dronesConfig = TransformAll(ScenarioRegistry)
    /\ droneSNs = Serials(TransformAll(ScenarioRegistry))
    /\ databaseConnected = TRUE
    /\ retryCount = 0
    /\ subscribed = Range(droneSNs)
    /\ registryUp = TRUE
    /\ cachedToken \in {NoToken, Token}
    /\ startedStreams = {}
    /\ droneLastMessageTime = <<>>
    /\ tasks = EmptyBag
    /\ sweeps = {}
    /\ loads = EmptyBag
    /\ now = 0
    /\ watchdogDue = CHECK_INTERVAL_MS
    /\ posts = [sn \in Devices |-> 0]
    /\ reports = [sn \in Devices |-> <<>>]
    /\ ev = Event("init", "", "", FALSE, {})
    /\ MonitorIdle
    /\ BackendIdle
    /\ NotifyIdle
    /\ RedisIdle

\* the first message of a device: its first camera is present
ScenarioPresent(sn) ==
    /\ ~MapHas(droneLastMessageTime, sn)
    /\ \E p \in SUBSET Cameras :
          /\ Kind(Osd(p), getDroneFirstCamera(dronesConfig, sn)) = "present"
          /\ OnMessage(sn, Osd(p))

\* once its start attempt has ended: its first camera is absent
ScenarioAbsent(sn) ==
    /\ MapHas(droneLastMessageTime, sn)
    /\ ~Busy(sn)
    /\ \E p \in SUBSET Cameras :
          /\ Kind(Osd(p), getDroneFirstCamera(dronesConfig, sn)) = "absent"
          /\ OnMessage(sn, Osd(p))

ScenarioNext ==
    \/ \E sn \in Devices : ScenarioPresent(sn)
    \/ \E sn \in Devices : ScenarioAbsent(sn)
    \/ \E t \in BagToSet(tasks) : TokenResume(t)
    \/ \E t \in BagToSet(tasks) : LoginRespond(t, TRUE)
    \/ \E t \in BagToSet(tasks) : PostRespond(t, TRUE)
    \/ \E t \in BagToSet(tasks) : PatchRespond(t, TRUE)

SpecScenario == ScenarioInit /\ [][ScenarioNext]_vars

ReportOn == [on |-> TRUE, url |-> StreamUrl]
ReportOff == [on |-> FALSE, url |-> ""]

\* C6: the presence message leads to exactly one start-stream POST, exactly
\* one report (true, returned URL) and STREAMING; the absence message after
\* it to IDLE and exactly one report (false, ""); further absence messages
\* to no POST and no report
C6_Scenario ==
    \A sn \in Devices :
        /\ ~MapHas(droneLastMessageTime, sn) =>
              posts[sn] = 0 /\ reports[sn] = <<>> /\ sn \notin startedStreams
        /\ (MapHas(droneLastMessageTime, sn) /\ Busy(sn)) =>
              /\ sn \notin startedStreams
              /\ \/ posts[sn] = 0 /\ reports[sn] = <<>> /\ Pending(sn, "post") = 0
                 \/ posts[sn] = 1 /\ reports[sn] = <<>> /\ Pending(sn, "post") = 1
                 \/ posts[sn] = 1 /\ reports[sn] = <<ReportOn>> /\ Pending(sn, "patch") = 1
        /\ (MapHas(droneLastMessageTime, sn) /\ ~Busy(sn)) =>
              /\ posts[sn] = 1
              /\ \/ sn \in startedStreams /\ reports[sn] = <<ReportOn>>
                 \/ sn \notin startedStreams /\ reports[sn] = <<ReportOn, ReportOff>>

\* a further absence message has been processed after the stop
C6_Witness ==
    /\ ev.op = "message" /\ ev.arg = "absent" /\ ~ev.was
    /\ reports[ev.sn] = <<ReportOn, ReportOff>>
    /\ posts[ev.sn] = 1

(* ------------------------------------------------------------------ *)
(* The fallback specification: telemetry while the MQTT client          *)
(* reconnects and the device set is loaded again, without the clock.    *)
(* The registry answers GET /drones; GET /drones/sn/<sn> answers with   *)
(* the record or with an error (404, timeout).  One device reports.    *)
(* ------------------------------------------------------------------ *)
\* the device that sends telemetry here: the one a reload may drop
Reporting == {"d1"}

FallbackNext ==
    \/ \E sn \in Reporting, payload \in Payloads : OnMessage(sn, payload)
    \/ \E t \in BagToSet(tasks) : TokenResume(t)
    \/ \E t \in BagToSet(tasks), ok \in BOOLEAN : LoginRespond(t, ok)
    \/ \E t \in BagToSet(tasks) : \E answer \in OneAnswers(registryUp, t.sn) : FetchRespond(t, answer)
    \/ \E t \in BagToSet(tasks) : FetchWake(t)
    \/ \E t \in BagToSet(tasks), ok \in BOOLEAN : PostRespond(t, ok)
    \/ \E t \in BagToSet(tasks), ok \in BOOLEAN : PatchRespond(t, ok)
    \/ MqttConnect
    \/ \E l \in BagToSet(loads), answer \in ListAnswers(registryUp) : LoadRespond(l, answer)

SpecFallback == Init /\ [][FallbackNext]_vars

\* C12: when a message with telemetry data of a device that is not in the
\* cached set (and not STREAMING) has been handled, a start attempt of that
\* device, which fetches its record, is under way
C12_UncachedDeviceIsFetched ==
    (/\ ev.op = "message" /\ ev.arg \in {"present", "absent"}
     /\ ~ev.was
     /\ FindDrone(dronesConfig, ev.sn) = 0)
        => Busy(ev.sn)

\* C13: a fallback fetch sends at most maxFetchAttempts GETs, sleeps 1x then
\* 2x 1000 ms between them, and when the last one fails it sets
\* databaseConnected to false and ends without a request, leaving the
\* device's state and the cached set as they were
C13_FallbackFetchGivesUp ==
    [][/\ \A t \in BagToSet(tasks') :
            /\ t.pc = "fetch" => t.fetchAttempts < maxFetchAttempts
            /\ t.pc = "fetchSleep" =>
                  /\ t.fetchAttempts \in 1..(maxFetchAttempts - 1)
                  /\ t.delay = t.fetchAttempts * 1000
       /\ (ev'.op = "fetch" /\ ev'.arg = "fail") =>
            /\ ~databaseConnected'
            /\ ev'.calls = {}
            /\ BagCardinality(tasks') = BagCardinality(tasks) - 1
            /\ \A t \in BagToSet(tasks') : BagIn(t, tasks)
            /\ UNCHANGED <<startedStreams, posts, reports, dronesConfig, droneSNs>>]_vars

\* the third GET of a fallback fetch has failed for an IDLE device
C13_Witness ==
    /\ ev.op = "fetch" /\ ev.arg = "fail"
    /\ ~ev.was /\ ev.sn \notin startedStreams
    /\ ~databaseConnected
    /\ posts[ev.sn] = 0

(* ------------------------------------------------------------------ *)
(* The registry specification: the registry client alone, from process *)
(* start, without the clock                                            *)
(* ------------------------------------------------------------------ *)
RegistryInit ==
    /\ dronesConfig = <<>>
    /\ droneSNs = <<>>
    /\ databaseConnected = FALSE
    /\ retryCount = 0
    /\ subscribed = {}
    /\ registryUp \in BOOLEAN
    /\ InitRuntime

RegistryNext ==
    \/ MqttConnect
    \/ ReconnectCheck
    \/ \E l \in BagToSet(loads), answer \in ListAnswers(registryUp) : LoadRespond(l, answer)
    \/ \E l \in BagToSet(loads) : LoadWake(l)
    \/ RegistryToggle

SpecRegistry == RegistryInit /\ [][RegistryNext]_vars

\* the timers keep firing, every GET is answered or times out (timeout:
\* 5000), and every sleep ends
RegistryFairness ==
    /\ WF_vars(ReconnectCheck)
    /\ WF_vars(\E l \in BagToSet(loads), answer \in ListAnswers(registryUp) : LoadRespond(l, answer))
    /\ WF_vars(\E l \in BagToSet(loads) : LoadWake(l))

\* the MQTT connection is established once, when the process starts
StartupConnect == ev.op = "init" /\ MqttConnect

RegistryFairNext ==
    \/ StartupConnect
    \/ ReconnectCheck
    \/ \E l \in BagToSet(loads), answer \in ListAnswers(registryUp) : LoadRespond(l, answer)
    \/ \E l \in BagToSet(loads) : LoadWake(l)
    \/ RegistryToggle

SpecRegistryFair == RegistryInit /\ [][RegistryFairNext]_vars /\ RegistryFairness

(* ------------------------------------------------------------------ *)
(* Properties of the registry client                                   *)
(* ------------------------------------------------------------------ *)
\* C5: a failed load attempt leaves dronesConfig and droneSNs as they were;
\* a successful one replaces both by the whole answered list
C5_ReloadAllOrNothing ==
    [][ev'.op = "load" =>
         IF ev'.arg = "ok"
         THEN /\ dronesConfig' \in {TransformAll(r) : r \in Snapshots}
              /\ droneSNs' = Serials(dronesConfig')
         ELSE UNCHANGED <<dronesConfig, droneSNs>>]_vars

\* an attempt has failed while a device set was cached
C5_Witness == ev.op = "load" /\ ev.arg = "retry" /\ Len(dronesConfig) = 2

\* C7: when the last of MAX_RETRY_ATTEMPTS attempts of a load fails, the
\* load ends, databaseConnected is false and the cached set is unchanged
C7_ExhaustedLoadFails ==
    [][(ev'.op = "load" /\ ev'.arg = "fail") =>
         /\ ~databaseConnected'
         /\ retryCount' = MAX_RETRY_ATTEMPTS
         /\ BagCardinality(loads') = BagCardinality(loads) - 1
         /\ \A l \in BagToSet(loads') : BagIn(l, loads)
         /\ UNCHANGED <<dronesConfig, droneSNs, subscribed>>]_vars

\* a load has given up while a device set was cached
C7_Witness ==
    /\ ev.op = "load" /\ ev.arg = "fail"
    /\ Len(dronesConfig) = 2
    /\ getDroneFirstCamera(dronesConfig, "d1") = "camA"

AllSubscribed == Range(droneSNs) \subseteq subscribed

\* C28: the set of subscribed topics never loses a topic, and subscribing
\* topics that are all subscribed already leaves it as it is
C28_SubscriptionsAdditive ==
    [][/\ subscribed \subseteq subscribed'
       /\ (ev'.op = "load" /\ ev'.arg = "ok" /\ Range(droneSNs') \subseteq subscribed) =>
             subscribed' = subscribed]_vars

\* a load has dropped d1 from the cached set and its topic is still subscribed
C28_Witness ==
    /\ ev.op = "load" /\ ev.arg = "ok"
    /\ "d1" \in subscribed
    /\ "d1" \notin Range(droneSNs)

\* C8: if the registry becomes and stays reachable, then whenever the
\* registry is marked disconnected, eventually a load has succeeded: it is
\* marked connected and the topic of every cached serial has been subscribed
C8_EventuallyReconnected ==
    (<>[]registryUp) => ((~databaseConnected) ~> (databaseConnected /\ AllSubscribed))

\* a load started by the reconnection timer has succeeded
C8_Witness ==
    /\ ev.op = "load" /\ ev.sn = "reconnect" /\ ev.arg = "ok"
    /\ databaseConnected /\ AllSubscribed
    /\ Cardinality(subscribed) = 2

(* ------------------------------------------------------------------ *)
(* The retry specification: the telemetry server or the stream monitor *)
(* from its start, with an empty cache, against a registry that goes   *)
(* down and comes back.  A behaviour follows one of the two processes. *)
(* ------------------------------------------------------------------ *)
StartInit ==
    /\ dronesConfig = <<>>
    /\ droneSNs = <<>>
    /\ databaseConnected = FALSE
    /\ retryCount = 0
    /\ subscribed = {}
    /\ registryUp = TRUE
    /\ InitRuntime

\* the telemetry server: loads of the registry, one after the other, and
\* start attempts of the reporting device that fetch its record and whose
\* start request is refused
TelemetryRetryNext ==
    \/ \E sn \in Reporting : OnMessage(sn, Osd(Cameras))
    \/ \E t \in BagToSet(tasks) : TokenResume(t)
    \/ \E t \in BagToSet(tasks), ok \in BOOLEAN : LoginRespond(t, ok)
    \/ \E t \in BagToSet(tasks) : \E answer \in OneAnswers(registryUp, t.sn) : FetchRespond(t, answer)
    \/ \E t \in BagToSet(tasks) : FetchWake(t)
    \/ \E t \in BagToSet(tasks) : PostRespond(t, FALSE)
    \/ loads = EmptyBag /\ MqttConnect
    \/ \E l \in BagToSet(loads), answer \in ListAnswers(registryUp) : LoadRespond(l, answer)
    \/ \E l \in BagToSet(loads) : LoadWake(l)

\* the stream monitor
MonitorProcessNext ==
    \/ ev.op = "init" /\ StartMonitoring
    \/ \E l \in monitorLoads :
          \E answer \in MonitorAnswers(registryUp, registryStreamIsOn) : MonitorLoadRespond(l, answer)
    \/ \E l \in monitorLoads : MonitorLoadWake(l)
    \/ CycleFire
    \/ MonitorReconnectCheck
    \/ \E c \in checking, online \in BOOLEAN : ProbeRespond(c, online)
    \/ \E c \in checking, outcome \in {"ok", "rejected", "error"} : MonitorPatchRespond(c, outcome)
    \/ \E c \in checking : MonitorPatchWake(c)

RetryNext ==
    \/ ~isMonitoring /\ TelemetryRetryNext
    \/ MonitorProcessNext
    \/ RegistryToggle

SpecRetry == StartInit /\ [][RetryNext]_vars

\* C17: an invocation of the registry load whose GET number attempt + 1 is
\* pending has sent at most MAX_RETRY_ATTEMPTS GETs, and it sleeps only
\* before a GET within that number; the same holds for the monitor's load
\* with its own maximum; a fallback fetch sends at most maxFetchAttempts
\* GETs, and the monitor's status update is sent again at most
\* UPDATE_RETRY_LIMIT times.  An attempt that is to be retried is followed
\* by a sleep, and so by a GET within the maximum.
C17_RetriesAreBounded ==
    /\ \A l \in BagToSet(loads) :
          /\ l.pc = "get" => l.attempt + 1 <= MAX_RETRY_ATTEMPTS
          /\ l.pc = "sleep" => l.attempt + 1 < MAX_RETRY_ATTEMPTS
    /\ \A l \in monitorLoads :
          /\ l.pc = "get" => l.attempt + 1 <= MONITOR_MAX_RETRY_ATTEMPTS
          /\ l.pc = "sleep" => l.attempt + 1 < MONITOR_MAX_RETRY_ATTEMPTS
    /\ \A t \in BagToSet(tasks) :
          /\ t.pc = "fetch" => t.fetchAttempts + 1 <= maxFetchAttempts
          /\ t.pc = "fetchSleep" => t.fetchAttempts < maxFetchAttempts
    /\ \A c \in checking : c.retryAttempt <= UPDATE_RETRY_LIMIT
    /\ (ev.op \in {"load", "monitorLoad", "fetch"} /\ ev.arg = "retry") =>
          \/ \E l \in BagToSet(loads) : l.pc = "sleep"
          \/ \E l \in monitorLoads : l.pc = "sleep"
          \/ \E t \in BagToSet(tasks) : t.pc = "fetchSleep"

\* the monitor's load has given up after its last GET
C17_Witness ==
    /\ ev.op = "monitorLoad" /\ ev.arg = "fail"
    /\ monitorLoads = {}
    /\ ~monitorDatabaseConnected

(* ------------------------------------------------------------------ *)
(* The monitor specification: the stream monitor from its start, with  *)
(* the registry going down and coming back                             *)
(* ------------------------------------------------------------------ *)
MonitorNext ==
    \/ StartMonitoring
    \/ \E l \in monitorLoads :
          \E answer \in MonitorAnswers(registryUp, registryStreamIsOn) : MonitorLoadRespond(l, answer)
    \/ \E l \in monitorLoads : MonitorLoadWake(l)
    \/ CycleFire
    \/ MonitorReconnectCheck
    \/ \E c \in checking, online \in BOOLEAN : ProbeRespond(c, online)
    \/ \E c \in checking, outcome \in {"ok", "rejected", "error"} : MonitorPatchRespond(c, outcome)
    \/ \E c \in checking : MonitorPatchWake(c)
    \/ RegistryToggle

SpecMonitor == StartInit /\ [][MonitorNext]_vars

\* C18: when a check has the same result as the check of the cycle before,
\* which sent a PATCH for it, and the registry stores that result, the
\* check sends no PATCH
C18_UpdateOnlyOnChange ==
    \A sn \in MonitoredSerials :
        (/\ Len(checks[sn]) = 2
         /\ checks[sn][1].on = checks[sn][2].on
         /\ checks[sn][1].patched
         /\ checks[sn][2].stored)
            => ~checks[sn][2].patched

(* ------------------------------------------------------------------ *)
(* The API specification: requests to the drone API, WebSocket clients *)
(* and the connection to Redis                                         *)
(* ------------------------------------------------------------------ *)
BackendNext ==
    \/ \E op \in ApiOps, sn \in ApiSerials, streamIsOn \in BOOLEAN : ApiCall(op, sn, streamIsOn)
    \/ \E r \in requests : FindRespond(r)
    \/ \E r \in requests : DbRespond(r)
    \/ \E r \in requests : PublishRespond(r)
    \/ RedisToggle
    \/ Deliver
    \/ \E c \in Clients : ClientConnects(c)
    \/ \E c \in Clients : ClientDisconnects(c)
    \/ \E c \in Clients, all \in BOOLEAN, droneSerial \in ApiSerials : ClientSubscribes(c, all, droneSerial)
    \/ \E c \in Clients : ClientUnsubscribes(c)

SpecBackend == StartInit /\ [][BackendNext]_vars

\* the operations that are over and ran with Redis connected throughout
Completed == {k \in DOMAIN changes : changes[k].done /\ changes[k].redisUp}

\* C19: an operation that ran with Redis connected has published its event
\* for every record it changed
C19_EveryChangePublished ==
    \A k \in Completed :
        \A sn \in changes[k].changed :
            \E p \in changes[k].published :
                p.event = EventOf(changes[k].op) /\ p.serialNumber = sn

\* the drone:event messages a client got that carry the event of change k
\* for the record sn
Copies(c, k, sn) ==
    Cardinality({i \in DOMAIN delivered[c] :
                    /\ delivered[c][i].change = k
                    /\ delivered[c][i].serialNumber = sn
                    /\ delivered[c][i].event = EventOf(changes[k].op)})

InBus(k) == \E i \in DOMAIN bus : bus[i].change = k

\* C20: a client that has been subscribed to all events since a create,
\* update or delete of one record was called has got, once the operation's
\* messages are delivered, exactly one drone:event with the operation's
\* event for the record it changed
C20_ExactlyOneEvent ==
    \A k \in Completed :
        (changes[k].op # "deleteAll" /\ ~InBus(k)) =>
            \A c \in changes[k].audience, sn \in changes[k].changed : Copies(c, k, sn) = 1

\* C21: a client gets a drone:event only in a broadcast, and only when it is
\* subscribed to all events or to the serial in the channel of the message;
\* a client with no subscription (never subscribed, or unsubscribed) gets
\* none; and no client is subscribed to all events and to a serial at once
C21_SubscriptionFilter ==
    [][\A c \in Clients :
          /\ ~(connectedClients'[c].subscribeAll /\ connectedClients'[c].droneSerial # "")
          /\ delivered'[c] # delivered[c] =>
                /\ bus # <<>>
                /\ delivered'[c] = Append(delivered[c], Head(bus))
                /\ connectedClients[c] # Subscription(TRUE, FALSE, "")
                /\ ~connectedClients[c].subscribeAll =>
                      connectedClients[c].droneSerial = Head(bus).channel[2]]_vars

\* both messages of a delete were broadcast, and a client subscribed to the
\* deleted drone got the one of the drone's channel only
C21_Witness ==
    \E c \in Clients :
        /\ connectedClients[c] = Subscription(TRUE, FALSE, "d1")
        /\ bus = <<>>
        /\ Len(changes) = 1 /\ changes[1].op = "delete"
        /\ Cardinality(changes[1].published) = 2
        /\ Len(delivered[c]) = 1
        /\ delivered[c][1].channel = <<"drone", "d1", "deleted">>

(* ------------------------------------------------------------------ *)
(* The attempts specification: the reporting device sends messages of  *)
(* every kind and keeps sending messages with its first camera         *)
(* present, and every request of a start attempt is answered, with     *)
(* success or with failure                                             *)
(* ------------------------------------------------------------------ *)
AttemptsNext ==
    \/ \E sn \in Reporting, payload \in Payloads : OnMessage(sn, payload)
    \/ \E t \in BagToSet(tasks) : TokenResume(t)
    \/ \E t \in BagToSet(tasks), ok \in BOOLEAN : LoginRespond(t, ok)
    \/ \E t \in BagToSet(tasks), ok \in BOOLEAN : PostRespond(t, ok)
    \/ \E t \in BagToSet(tasks), ok \in BOOLEAN : PatchRespond(t, ok)

\* messages keep arriving, the continuation of a settled await runs, and
\* the services answer every request
AttemptsFairness ==
    /\ SF_vars(\E sn \in Reporting : OnMessage(sn, Osd(Cameras)))
    /\ WF_vars(\E t \in BagToSet(tasks) : TokenResume(t))
    /\ WF_vars(\E t \in BagToSet(tasks), ok \in BOOLEAN : LoginRespond(t, ok))
    /\ WF_vars(\E t \in BagToSet(tasks), ok \in BOOLEAN : PostRespond(t, ok))
    /\ WF_vars(\E t \in BagToSet(tasks), ok \in BOOLEAN : PatchRespond(t, ok))

SpecAttempts == Init /\ [][AttemptsNext]_vars /\ AttemptsFairness

\* C25: a message with the first camera present that is processed while the
\* device is IDLE starts a new attempt, whatever attempts came before; and
\* if from some time on no request fails, every reporting device becomes
\* STREAMING
C25_NewAttemptAfterEnd ==
    /\ [][(ev'.op = "message" /\ ev'.arg = "present" /\ ~ev'.was) =>
             /\ BagCardinality(tasks') = BagCardinality(tasks) + 1
             /\ \E t \in BagToSet(tasks') :
                   /\ t.sn = ev'.sn /\ t.pc \in {"login", "token"}
                   /\ CopiesIn(t, tasks') = CopiesIn(t, tasks) + 1]_vars
    /\ (<>[](ev.arg # "fail")) => <>(Reporting \subseteq startedStreams)

\* a start-stream request of the device has failed, no attempt was left,
\* and the next message has started a new one
C25_Witness ==
    /\ ev.op = "message" /\ ev.arg = "present" /\ ~ev.was
    /\ posts[ev.sn] >= 1
    /\ reports[ev.sn] = <<>>
    /\ BagCardinality(tasks) = 1
    /\ Busy(ev.sn)

(* ------------------------------------------------------------------ *)
(* The timeouts specification: one start attempt of the reporting      *)
(* device at a time.  Fairness is what the program guarantees: the     *)
(* continuation of a settled await runs, a sleep ends, and a GET is     *)
(* answered or times out (timeout: 5000, lines 47-49 and 230-232).     *)
(* The login, the start request and the report are sent without a      *)
(* timeout (lines 174-182, 295-300, 100-104): nothing makes them end.  *)
(* ------------------------------------------------------------------ *)
TimeoutsNext ==
    \/ \E sn \in Reporting, payload \in Payloads : ~Busy(sn) /\ OnMessage(sn, payload)
    \/ \E t \in BagToSet(tasks) : TokenResume(t)
    \/ \E t \in BagToSet(tasks), ok \in BOOLEAN : LoginRespond(t, ok)
    \/ \E t \in BagToSet(tasks) : \E answer \in OneAnswers(registryUp, t.sn) : FetchRespond(t, answer)
    \/ \E t \in BagToSet(tasks) : FetchWake(t)
    \/ \E t \in BagToSet(tasks), ok \in BOOLEAN : PostRespond(t, ok)
    \/ \E t \in BagToSet(tasks), ok \in BOOLEAN : PatchRespond(t, ok)
    \/ MqttConnect
    \/ \E l \in BagToSet(loads), answer \in ListAnswers(registryUp) : LoadRespond(l, answer)

TimeoutsFairness ==
    /\ WF_vars(\E t \in BagToSet(tasks) : TokenResume(t))
    /\ WF_vars(\E t \in BagToSet(tasks) : \E answer \in OneAnswers(registryUp, t.sn) : FetchRespond(t, answer))
    /\ WF_vars(\E t \in BagToSet(tasks) : FetchWake(t))
    /\ WF_vars(\E l \in BagToSet(loads), answer \in ListAnswers(registryUp) : LoadRespond(l, answer))

SpecTimeouts == Init /\ [][TimeoutsNext]_vars /\ TimeoutsFairness

\* C26: every start attempt ends: a device with a pending attempt is
\* eventually without one
C26_AttemptsTerminate ==
    \A sn \in Reporting : Busy(sn) ~> ~Busy(sn)

(* ------------------------------------------------------------------ *)
(* The camera specification: d1, whose cameras are camA and camB, sends *)
(* messages in which camB alone is present; d2, whose one camera is    *)
(* camB, sends messages of every kind                                  *)
(* ------------------------------------------------------------------ *)
OtherCameraOnly == Osd({"camB"})

CameraNext ==
    \/ OnMessage("d1", OtherCameraOnly)
    \/ \E payload \in Payloads : OnMessage("d2", payload)
    \/ \E t \in BagToSet(tasks) : TokenResume(t)
    \/ \E t \in BagToSet(tasks), ok \in BOOLEAN : LoginRespond(t, ok)
    \/ \E t \in BagToSet(tasks), ok \in BOOLEAN : PostRespond(t, ok)
    \/ \E t \in BagToSet(tasks), ok \in BOOLEAN : PatchRespond(t, ok)

SpecCamera == ScenarioInit /\ [][CameraNext]_vars

\* C27: messages in which a configured camera other than the first is
\* present start no attempt and send no start request, and every start
\* request names the first configured camera of its device
C27_FirstCameraDecides ==
    /\ posts["d1"] = 0 /\ ~Busy("d1") /\ "d1" \notin startedStreams
    /\ \A c \in ev.calls :
          c.api = "start" => c.url = ScenarioRegistry[FindDrone(dronesConfig, c.sn)].cameras[1]
    /\ \A t \in BagToSet(tasks) :
          t.pc \in {"post", "patch"} =>
              t.cam = ScenarioRegistry[FindDrone(dronesConfig, t.sn)].cameras[1]

\* d1 has reported its second camera while d2 was started on its first
C27_Witness ==
    /\ ev.op = "message" /\ ev.sn = "d1" /\ ev.arg = "absent"
    /\ MapHas(droneLastMessageTime, "d1")
    /\ "d2" \in startedStreams
    /\ posts["d2"] >= 1

(* ------------------------------------------------------------------ *)
(* The sweep specification: two devices are started by their first     *)
(* message and fall silent; the watchdog's stop reports succeed or fail *)
(* ------------------------------------------------------------------ *)
SweepNext ==
    \/ \E sn \in Devices : ScenarioPresent(sn)
    \/ \E t \in BagToSet(tasks) : TokenResume(t)
    \/ \E t \in BagToSet(tasks) : LoginRespond(t, TRUE)
    \/ \E t \in BagToSet(tasks) : PostRespond(t, TRUE)
    \/ \E t \in BagToSet(tasks) : PatchRespond(t, TRUE)
    \/ WatchdogFire
    \/ \E s \in sweeps, ok \in BOOLEAN : WatchdogResume(s, ok)
    \/ Tick

SpecSweep == ScenarioInit /\ [][SweepNext]_vars

\* the STREAMING devices other than sn whose lastSeen is older than the
\* timeout at the time wnow of a sweep
SilentOthers(wnow, sn) ==
    {d \in startedStreams \ {sn} :
        /\ MapHas(droneLastMessageTime, d)
        /\ wnow - MapGet(droneLastMessageTime, d) > INACTIVITY_TIMEOUT_MS}

\* C29: when the stop report of a sweep for one device is answered, with
\* success or with failure, the lastSeen entry of that device is removed and
\* the sweep goes on: if another STREAMING device is silent, the same sweep
\* makes one of them IDLE in that step and sends its report
C29_SweepGoesOn ==
    [][ev'.op = "swept" =>
          /\ ~MapHas(droneLastMessageTime', ev'.sn)
          /\ \E s \in sweeps :
                /\ s.sn = ev'.sn /\ \A o \in sweeps' : o # s
                /\ SilentOthers(s.wnow, s.sn) # {} =>
                      \E d \in SilentOthers(s.wnow, s.sn) :
                          /\ d \notin startedStreams'
                          /\ ev'.calls = {Patch(d, FALSE, "")}
                          /\ \E o \in sweeps' : o.wnow = s.wnow /\ o.sn = d]_vars

\* the stop report of one device has failed and the sweep has stopped the other
C29_Witness ==
    /\ ev.op = "swept" /\ ev.arg = "fail"
    /\ ~MapHas(droneLastMessageTime, ev.sn)
    /\ \E d \in Devices \ {ev.sn} :
          /\ ev.calls = {Patch(d, FALSE, "")}
          /\ d \notin startedStreams
    /\ startedStreams = {}


(* ------------------------------------------------------------------ *)
(* The delay between the attempts of a load                            *)
(* ------------------------------------------------------------------ *)
\* the timers set by the step that has just run
Timers == {c \in ev.calls : c.api = "setTimeout"}

\* C30: the sleep before retry number k of a registry load is base * k: the
\* telemetry server's load and the monitor's load, having failed attempt
\* k - 1 (counted from 0), sleep their base delay times k
C30_LinearRetryDelay ==
    /\ (ev.op = "load" /\ ev.arg = "retry") =>
          \E k \in 1..(MAX_RETRY_ATTEMPTS - 1) :
             /\ \E l \in BagToSet(loads) : l.pc = "sleep" /\ l.attempt = k - 1
             /\ Timers = {SetTimeout(INITIAL_RETRY_DELAY_MS * k)}
    /\ (ev.op = "monitorLoad" /\ ev.arg = "retry") =>
          \E k \in 1..(MONITOR_MAX_RETRY_ATTEMPTS - 1) :
             /\ \E l \in monitorLoads : l.pc = "sleep" /\ l.attempt = k - 1
             /\ Timers = {SetTimeout(MONITOR_RETRY_DELAY_MS * k)}

\* the monitor's half of it, which holds
MonitorLinearRetryDelay ==
    (ev.op = "monitorLoad" /\ ev.arg = "retry") =>
       \E k \in 1..(MONITOR_MAX_RETRY_ATTEMPTS - 1) :
          /\ \E l \in monitorLoads : l.pc = "sleep" /\ l.attempt = k - 1
          /\ Timers = {SetTimeout(MONITOR_RETRY_DELAY_MS * k)}

\* what the telemetry server's load sleeps: the doubled delay, capped, within
\* a tenth of it either way
TelemetryRetryDelay ==
    (ev.op = "load" /\ ev.arg = "retry") =>
       \E l \in BagToSet(loads), c \in Timers :
          LET exponentialDelay == Min(INITIAL_RETRY_DELAY_MS * Pow2(l.attempt),
                                      MAX_RETRY_DELAY_MS)
          IN  /\ l.pc = "sleep" /\ Timers = {c}
              /\ 10 * c.ms >= 9 * exponentialDelay
              /\ 10 * c.ms < 11 * exponentialDelay

(* ------------------------------------------------------------------ *)
(* Properties that hold only if the callbacks do not interleave        *)
(* ------------------------------------------------------------------ *)
\* no two entries of a cached list carry the same serial number
DistinctSerials(config) ==
    \A i, j \in 1..Len(config) : config[i].sn = config[j].sn => i = j

\* C31: the cached device set never holds two entries with the same serial
\* number, and it changes only when a successful registry load replaces
\* it by the whole answered list, however reloads interleave with start
\* attempts and their fallback fetches
C31_CacheReplacedWholesale ==
    [][/\ DistinctSerials(dronesConfig')
       /\ dronesConfig' # dronesConfig =>
             /\ ev'.op = "load" /\ ev'.arg = "ok"
             /\ dronesConfig' \in {TransformAll(r) : r \in Snapshots}]_vars

\* the first half of it alone
CacheSerialsDistinct == DistinctSerials(dronesConfig)

\* C32: a STREAMING device has a lastSeen entry, also when its start
\* attempt completes after the watchdog has removed the entry
C32_StreamingHasLastSeen ==
    \A sn \in startedStreams : MapHas(droneLastMessageTime, sn)

\* C33: the watchdog removes a lastSeen entry only if the entry is older
\* than the inactivity timeout when it is removed; a timestamp written
\* while a sweep awaits its stop report is not deleted by that sweep
C33_RemovedOnlyWhenStale ==
    [][\A sn \in Devices :
          (MapHas(droneLastMessageTime, sn) /\ ~MapHas(droneLastMessageTime', sn)) =>
             now - MapGet(droneLastMessageTime, sn) > INACTIVITY_TIMEOUT_MS]_vars

\* C34: once an absence message of a device has been processed, the device
\* does not become STREAMING unless a presence message of it is processed
\* first: the step that follows the absence message, if it is not such a
\* presence message, leaves the device not STREAMING
C34_AbsenceCancelsPendingStart ==
    [][(/\ ev.op = "message" /\ ev.arg = "absent"
        /\ ~(ev'.op = "message" /\ ev'.arg = "present" /\ ev'.sn = ev.sn))
          => ev.sn \notin startedStreams']_vars

\* no external call is pending for the device
Quiet(sn) == ~Busy(sn) /\ \A s \in sweeps : s.sn # sn

\* C35: whenever no external call is pending for a device, it is STREAMING
\* only if the registry acknowledged a report streamIsOn=true for it: when
\* the only report ever sent for it has failed, the device is not STREAMING
C35_LocalAgreesWithRegistry ==
    (/\ ev.op = "patched" /\ ev.arg = "fail"
     /\ Len(reports[ev.sn]) = 1
     /\ Quiet(ev.sn))
        => ev.sn \notin startedStreams

\* C36: at most one registry load (one chain of attempts) is in progress at
\* any time: the reconnection timer starts no load while the startup load
\* or a load of an earlier tick is retrying
C36_OneLoadAtATime == BagCardinality(loads) <= 1

(* ------------------------------------------------------------------ *)
(* The reload specification: the reporting device always reports all   *)
(* its cameras, the registry is reloaded at will, and no time passes   *)
(* ------------------------------------------------------------------ *)
ReloadNext ==
    \/ \E sn \in Reporting : OnMessage(sn, Osd(Cameras))
    \/ \E t \in BagToSet(tasks) : TokenResume(t)
    \/ \E t \in BagToSet(tasks), ok \in BOOLEAN : LoginRespond(t, ok)
    \/ \E t \in BagToSet(tasks) : \E answer \in OneAnswers(registryUp, t.sn) : FetchRespond(t, answer)
    \/ \E t \in BagToSet(tasks) : FetchWake(t)
    \/ \E t \in BagToSet(tasks), ok \in BOOLEAN : PostRespond(t, ok)
    \/ \E t \in BagToSet(tasks), ok \in BOOLEAN : PatchRespond(t, ok)
    \/ MqttConnect
    \/ \E l \in BagToSet(loads), answer \in ListAnswers(registryUp) : LoadRespond(l, answer)

SpecReload == Init /\ [][ReloadNext]_vars

\* C37: a registry reload never stops a stream: a STREAMING device whose
\* telemetry keeps reporting the camera its start was triggered by stays
\* STREAMING, also after a reload in which it is missing or has another
\* first camera
C37_ReloadKeepsStreaming ==
    [][\A sn \in Reporting : sn \in startedStreams => sn \in startedStreams']_vars

(* ------------------------------------------------------------------ *)
(* The notification specification: the notification server alone,      *)
(* with an empty store or after a burst of distinct detections          *)
(* ------------------------------------------------------------------ *)
\* the store after the frames 1..n of one camera were accepted at time 0
BurstOf(n) ==
    [i \in 1..n |-> [k |-> FrameHash(i), v |-> Stored(0, Detection(FrameHash(i), "person"))]]

NotifyInit ==
    /\ dronesConfig = <<>>
    /\ droneSNs = <<>>
    /\ databaseConnected = FALSE
    /\ retryCount = 0
    /\ subscribed = {}
    /\ registryUp = TRUE
    /\ cachedToken = NoToken
    /\ startedStreams = {}
    /\ droneLastMessageTime = <<>>
    /\ tasks = EmptyBag
    /\ sweeps = {}
    /\ loads = EmptyBag
    /\ now = 0
    /\ watchdogDue = CHECK_INTERVAL_MS
    /\ posts = [sn \in Devices |-> 0]
    /\ reports = [sn \in Devices |-> <<>>]
    /\ ev = Event("init", "", "", FALSE, {})
    /\ MonitorIdle
    /\ BackendIdle
    /\ recentDetections \in {BurstOf(0), BurstOf(MAX_STORED_DETECTIONS - 1)}
    /\ notifyRequests = EmptyBag
    /\ notifyNow = 0
    /\ RedisIdle

NotifyNext ==
    \/ \E d \in Detections, hasFrame \in BOOLEAN : NotifyReceive(d, hasFrame)
    \/ \E d \in BagToSet(notifyRequests), hashOk \in BOOLEAN : NotifyHashed(d, hashOk)
    \/ NotifyCleanup

SpecNotify == NotifyInit /\ [][NotifyNext]_vars

\* C38: the store of recent detections never holds more than
\* MAX_STORED_DETECTIONS entries, whatever /notify requests and cleanup
\* runs precede, and a detection filtered as a duplicate is neither
\* stored nor inserted into the database nor emitted
C38_StoreBounded ==
    [][/\ Len(recentDetections') <= MAX_STORED_DETECTIONS
       /\ (ev'.op = "notify" /\ ev'.arg = "duplicate") =>
             /\ UNCHANGED recentDetections
             /\ ev'.calls = {}]_vars

\* a detection was accepted into a full store, whose oldest entry has gone
C38_Witness ==
    /\ ev.op = "notify" /\ ev.arg = "accepted"
    /\ Len(recentDetections) = MAX_STORED_DETECTIONS
    /\ recentDetections[1].k # FrameHash(1)

(* ------------------------------------------------------------------ *)
(* The Redis specification: the Redis manager alone, after startup     *)
(* ------------------------------------------------------------------ *)
RedisNext ==
    \/ \E role \in {"publisher", "subscriber"} : RedisClientError(role)
    \/ RedisTimerFire
    \/ \E ok \in BOOLEAN : RedisConnectRespond(ok)

SpecRedis == StartInit /\ [][RedisNext]_vars

\* C39: reconnectAttempts never exceeds maxReconnectAttempts; while it is at
\* the maximum no reconnect is scheduled; only a successful initialize
\* resets it to 0; and after a successful initialize at most one publisher
\* and one subscriber connection are open
C39_ReconnectsBounded ==
    [][/\ reconnectAttempts' <= maxReconnectAttempts
       /\ reconnectAttempts = maxReconnectAttempts =>
             \/ reconnectTimers' <= reconnectTimers
             \/ ev'.op = "redisInit" /\ ev'.arg = "ok"
       /\ (reconnectAttempts # 0 /\ reconnectAttempts' = 0) =>
             ev'.op = "redisInit" /\ ev'.arg = "ok"
       /\ (ev'.op = "redisInit" /\ ev'.arg = "ok") =>
             livePublishers' <= 1 /\ liveSubscribers' <= 1]_vars

\* the claim without its last part, about the connections
ReconnectCounterBounded ==
    [][/\ reconnectAttempts' <= maxReconnectAttempts
       /\ reconnectAttempts = maxReconnectAttempts =>
             \/ reconnectTimers' <= reconnectTimers
             \/ ev'.op = "redisInit" /\ ev'.arg = "ok"
       /\ (reconnectAttempts # 0 /\ reconnectAttempts' = 0) =>
             ev'.op = "redisInit" /\ ev'.arg = "ok"]_vars

\* the counter has reached its maximum
ReconnectsExhausted == reconnectAttempts = maxReconnectAttempts
====
